---- MODULE Spec2Model ----
(***************************************************************************)
(* todo-log: the storage abstraction (JSONStorageBackend,                  *)
(* SQLiteStorageBackend), the path sandbox (_resolve_safe_path) and the    *)
(* backend selector (get_storage_backend), as state machines.              *)
(*                                                                         *)
(* Python values are modelled as follows.  A scalar is a record            *)
(* [k, s]: k is the Python type ("str", "null" for None, "int", "set" for  *)
(* a value json cannot serialise, "deep" for a list nested deeper than the *)
(* interpreter's recursion limit), s the code points of a str (or the      *)
(* digits' value of an int).  A dict is a TLA+ record (function on its     *)
(* keys), a list is a sequence.  A file is a sequence of JSON tokens, each *)
(* token the sequence of its bytes; the insignificant white space that     *)
(* indent=2 puts between tokens is not represented.                        *)
(***************************************************************************)
EXTENDS Integers, Sequences, FiniteSets, TLC

\* ------------------------------------------------------------------ values

Str(s) == [k |-> "str", s |-> s]
None == [k |-> "null", s |-> <<>>]
PyInt(n) == [k |-> "int", s |-> <<n>>]
PySet == [k |-> "set", s |-> <<>>]
DeepList == [k |-> "deep", s |-> <<>>]

IsScalar(v) == DOMAIN v = {"k", "s"}

\* The keys the model's dicts use, with their code points.
KeyCodes ==
    [timestamp  |-> <<116, 105, 109, 101, 115, 116, 97, 109, 112>>,
     session_id |-> <<115, 101, 115, 115, 105, 111, 110, 95, 105, 100>>,
     cwd        |-> <<99, 119, 100>>,
     todos      |-> <<116, 111, 100, 111, 115>>,
     content    |-> <<99, 111, 110, 116, 101, 110, 116>>,
     status     |-> <<115, 116, 97, 116, 117, 115>>,
     activeForm |-> <<97, 99, 116, 105, 118, 101, 70, 111, 114, 109>>,
     id         |-> <<105, 100>>]

\* Iteration order of a dict's keys (a Python dict iterates in insertion
\* order; the entries and items of the model are built in this order).
KeyOrder ==
    <<"timestamp", "session_id", "cwd", "todos",
      "content", "status", "activeForm", "id">>

\* ------------------------------------------------------- json: serialising

HexDigit(d) == IF d < 10 THEN 48 + d ELSE 87 + d

Hex4(n) ==
    <<HexDigit((n \div 4096) % 16), HexDigit((n \div 256) % 16),
      HexDigit((n \div 16) % 16), HexDigit(n % 16)>>

\* json.encoder.py_encode_basestring_ascii, one code point (ensure_ascii is
\* left at its default, True: everything outside ' '..'~' is escaped).
EscapeChar(c) ==
    CASE c = 34 -> <<92, 34>>
      [] c = 92 -> <<92, 92>>
      [] c = 10 -> <<92, 110>>
      [] c = 13 -> <<92, 114>>
      [] c = 9  -> <<92, 116>>
      [] c = 8  -> <<92, 98>>
      [] c = 12 -> <<92, 102>>
      [] c >= 32 /\ c <= 126 /\ c # 34 /\ c # 92 -> <<c>>
      [] c >= 65536 ->
            <<92, 117>> \o Hex4(55296 + ((c - 65536) \div 1024))
            \o <<92, 117>> \o Hex4(56320 + ((c - 65536) % 1024))
      [] OTHER -> <<92, 117>> \o Hex4(c)

RECURSIVE EscapeString(_)
EscapeString(s) ==
    IF s = <<>> THEN <<>> ELSE EscapeChar(Head(s)) \o EscapeString(Tail(s))

RECURSIVE Digits(_)
Digits(n) == IF n < 10 THEN <<48 + n>> ELSE Digits(n \div 10) \o <<48 + (n % 10)>>

\* The exception json.dump raises on a scalar, "none" when it serialises.
ScalarDumpError(v) ==
    CASE v.k = "set"  -> "TypeError"
      [] v.k = "deep" -> "RecursionError"
      [] OTHER        -> "none"

DumpScalar(v) ==
    CASE v.k = "str"  -> << <<34>> \o EscapeString(v.s) \o <<34>> >>
      [] v.k = "null" -> << <<110, 117, 108, 108>> >>
      [] v.k = "int"  -> << Digits(v.s[1]) >>
      [] OTHER        -> <<>>

TokComma == <<44>>
TokColon == <<58>>

KeyToken(name) == <<34>> \o KeyCodes[name] \o <<34>>

\* The keys of dict d from position i of KeyOrder on, in iteration order.
RECURSIVE KeysFrom(_, _)
KeysFrom(d, i) ==
    IF i > Len(KeyOrder) THEN <<>>
    ELSE (IF KeyOrder[i] \in DOMAIN d THEN <<KeyOrder[i]>> ELSE <<>>)
         \o KeysFrom(d, i + 1)

RECURSIVE DumpItemFields(_, _)
DumpItemFields(item, keys) ==
    IF keys = <<>> THEN <<>>
    ELSE <<KeyToken(Head(keys)), TokColon>> \o DumpScalar(item[Head(keys)])
         \o (IF Len(keys) > 1 THEN <<TokComma>> ELSE <<>>)
         \o DumpItemFields(item, Tail(keys))

DumpItem(item) ==
    << <<123>> >> \o DumpItemFields(item, KeysFrom(item, 1)) \o << <<125>> >>

RECURSIVE DumpItems(_)
DumpItems(items) ==
    IF items = <<>> THEN <<>>
    ELSE DumpItem(Head(items))
         \o (IF Len(items) > 1 THEN <<TokComma>> ELSE <<>>)
         \o DumpItems(Tail(items))

RECURSIVE DumpEntryFields(_, _)
DumpEntryFields(e, keys) ==
    IF keys = <<>> THEN <<>>
    ELSE <<KeyToken(Head(keys)), TokColon>>
         \o (IF Head(keys) = "todos"
             THEN << <<91>> >> \o DumpItems(e.todos) \o << <<93>> >>
             ELSE DumpScalar(e[Head(keys)]))
         \o (IF Len(keys) > 1 THEN <<TokComma>> ELSE <<>>)
         \o DumpEntryFields(e, Tail(keys))

\* One element of the history list: an entry dict, or a scalar that a
\* foreign writer left in the array.
DumpElem(e) ==
    IF IsScalar(e) THEN DumpScalar(e)
    ELSE << <<123>> >> \o DumpEntryFields(e, KeysFrom(e, 1)) \o << <<125>> >>

RECURSIVE DumpElems(_)
DumpElems(h) ==
    IF h = <<>> THEN <<>>
    ELSE DumpElem(Head(h))
         \o (IF Len(h) > 1 THEN <<TokComma>> ELSE <<>>)
         \o DumpElems(Tail(h))

\* json.dump(history, f, indent=2): the tokens written when nothing fails.
JsonDump(h) == << <<91>> >> \o DumpElems(h) \o << <<93>> >>

ItemDumpError(item) ==
    IF \E key \in DOMAIN item : ScalarDumpError(item[key]) = "TypeError"
    THEN "TypeError"
    ELSE IF \E key \in DOMAIN item : ScalarDumpError(item[key]) = "RecursionError"
    THEN "RecursionError"
    ELSE "none"

ElemDumpError(e) ==
    IF IsScalar(e) THEN ScalarDumpError(e)
    ELSE LET errs == {ScalarDumpError(e[key]) : key \in DOMAIN e \ {"todos"}}
                     \cup {ItemDumpError(e.todos[i]) : i \in DOMAIN e.todos}
         IN  IF "TypeError" \in errs THEN "TypeError"
             ELSE IF "RecursionError" \in errs THEN "RecursionError"
             ELSE "none"

\* The exception json.dump(history) raises, "none" when it serialises.
JsonDumpError(h) ==
    LET errs == {ElemDumpError(h[i]) : i \in DOMAIN h}
    IN  IF "TypeError" \in errs THEN "TypeError"
        ELSE IF "RecursionError" \in errs THEN "RecursionError"
        ELSE "none"

\* What a json.dump that raises has written: the elements before the one
\* that fails (the file object flushes them when the with-block closes it).
RECURSIVE PartialElems(_)
PartialElems(h) ==
    IF h = <<>> \/ ElemDumpError(Head(h)) # "none" THEN <<>>
    ELSE DumpElem(Head(h)) \o <<TokComma>> \o PartialElems(Tail(h))

JsonDumpPartial(h) == << <<91>> >> \o PartialElems(h)

\* ----------------------------------------------------------- json: parsing

\* A decoded or unescaped text: ok is FALSE where the codec or the scanner
\* raises.
Bad == [ok |-> FALSE, s |-> <<>>]
Cons(c, rest) == [ok |-> rest.ok, s |-> <<c>> \o rest.s]

IsCont(bs, i) == i <= Len(bs) /\ bs[i] >= 128 /\ bs[i] <= 191

\* The length of the UTF-8 sequence that lead byte b starts, 0 if none.
Utf8Len(b) ==
    CASE b < 128 -> 1
      [] b >= 194 /\ b < 224 -> 2
      [] b >= 224 /\ b < 240 -> 3
      [] b >= 240 /\ b < 245 -> 4
      [] OTHER -> 0

Utf8CodePoint(bs, i, n) ==
    CASE n = 1 -> bs[i]
      [] n = 2 -> (bs[i] - 192) * 64 + (bs[i + 1] - 128)
      [] n = 3 -> (bs[i] - 224) * 4096 + (bs[i + 1] - 128) * 64 + (bs[i + 2] - 128)
      [] OTHER -> (bs[i] - 240) * 262144 + (bs[i + 1] - 128) * 4096
                  + (bs[i + 2] - 128) * 64 + (bs[i + 3] - 128)

\* open(..., encoding="utf-8"): the code points of a token's bytes from
\* position i on; the codec raises UnicodeDecodeError where ok is FALSE.
RECURSIVE Utf8From(_, _, _)
Utf8From(bs, i, n) ==
    IF i > Len(bs) THEN [ok |-> TRUE, s |-> <<>>]
    ELSE IF n = 0 \/ \E j \in 1..(n - 1) : ~IsCont(bs, i + j) THEN Bad
    ELSE Cons(Utf8CodePoint(bs, i, n),
              Utf8From(bs, i + n, IF i + n > Len(bs) THEN 1 ELSE Utf8Len(bs[i + n])))

Utf8Decode(bs) == Utf8From(bs, 1, IF bs = <<>> THEN 1 ELSE Utf8Len(bs[1]))

HexVal(c) ==
    CASE c >= 48 /\ c <= 57  -> c - 48
      [] c >= 97 /\ c <= 102 -> c - 87
      [] c >= 65 /\ c <= 70  -> c - 55
      [] OTHER -> 0 - 1

\* The value of the four hex digits at cs[i..i+3], -1 when they are not.
Hex4Val(cs, i) ==
    IF i + 3 > Len(cs) \/ \E j \in 0..3 : HexVal(cs[i + j]) < 0 THEN 0 - 1
    ELSE HexVal(cs[i]) * 4096 + HexVal(cs[i + 1]) * 256
         + HexVal(cs[i + 2]) * 16 + HexVal(cs[i + 3])

SimpleEscape(c) ==
    CASE c = 34  -> 34
      [] c = 92  -> 92
      [] c = 47  -> 47
      [] c = 110 -> 10
      [] c = 114 -> 13
      [] c = 116 -> 9
      [] c = 98  -> 8
      [] c = 102 -> 12
      [] OTHER   -> 0 - 1

\* hi, the value of a \uXXXX escape at cs[i], is a high surrogate that a
\* \uXXXX low surrogate follows.
IsPair(cs, i, hi) ==
    /\ hi >= 55296 /\ hi < 56320
    /\ i + 7 <= Len(cs)
    /\ cs[i + 6] = 92 /\ cs[i + 7] = 117
    /\ Hex4Val(cs, i + 8) >= 56320
    /\ Hex4Val(cs, i + 8) < 57344

\* json.decoder.py_scanstring on the characters between the quotes, from
\* position i on; hi is the value of the \uXXXX escape at i (-1 if there
\* is none), pair says whether it is the first half of a surrogate pair.
RECURSIVE UnescapeFrom(_, _)
RECURSIVE UnescapeU(_, _, _, _)
UnescapeU(cs, i, hi, pair) ==
    IF hi < 0 THEN Bad
    ELSE IF pair
    THEN Cons(65536 + (hi - 55296) * 1024 + (Hex4Val(cs, i + 8) - 56320),
              UnescapeFrom(cs, i + 12))
    ELSE Cons(hi, UnescapeFrom(cs, i + 6))

UnescapeFrom(cs, i) ==
    IF i > Len(cs) THEN [ok |-> TRUE, s |-> <<>>]
    ELSE IF cs[i] = 34 \/ cs[i] < 32 THEN Bad
    ELSE IF cs[i] # 92 THEN Cons(cs[i], UnescapeFrom(cs, i + 1))
    ELSE IF i + 1 > Len(cs) THEN Bad
    ELSE IF cs[i + 1] = 117
    THEN UnescapeU(cs, i, Hex4Val(cs, i + 2), IsPair(cs, i, Hex4Val(cs, i + 2)))
    ELSE IF SimpleEscape(cs[i + 1]) < 0 THEN Bad
    ELSE Cons(SimpleEscape(cs[i + 1]), UnescapeFrom(cs, i + 2))

IsStringToken(t) == Len(t) >= 2 /\ t[1] = 34 /\ t[Len(t)] = 34
IsNumberToken(t) == t # <<>> /\ \A i \in DOMAIN t : t[i] >= 48 /\ t[i] <= 57

\* The text between the quotes of string token t.
TokenText(t) == UnescapeFrom(SubSeq(t, 2, Len(t) - 1), 1)

RECURSIVE NumberValue(_)
NumberValue(t) ==
    IF t = <<>> THEN 0
    ELSE NumberValue(SubSeq(t, 1, Len(t) - 1)) * 10 + (t[Len(t)] - 48)

KeyName(cps) ==
    IF \E n \in DOMAIN KeyCodes : KeyCodes[n] = cps
    THEN CHOOSE n \in DOMAIN KeyCodes : KeyCodes[n] = cps
    ELSE "other"

ParseFail == [ok |-> FALSE, kind |-> "none", val |-> None, next |-> 0]
Parsed(kind, val, next) == [ok |-> TRUE, kind |-> kind, val |-> val, next |-> next]
EmptyDict == [key \in {} |-> None]

\* The recursive-descent parser of json.load, over the tokens.  A result is
\* [ok, kind, val, next]: kind is the Python type of val, next the position
\* after the value; ok = FALSE is json.JSONDecodeError.
\* ParseValue parses the value at position i.  ParseElems continues an
\* array whose elements so far are acc, v being its next element as
\* parsed; ParseMembers continues an object whose members so far are acc,
\* v being the value parsed for key.
RECURSIVE ParseValue(_, _)
RECURSIVE ParseElems(_, _, _)
RECURSIVE ParseMembers(_, _, _, _)

ParseElems(toks, acc, v) ==
    IF ~v.ok \/ v.next > Len(toks) THEN ParseFail
    ELSE IF toks[v.next] = <<93>>
    THEN Parsed("list", Append(acc, v.val), v.next + 1)
    ELSE IF toks[v.next] = <<44>>
    THEN ParseElems(toks, Append(acc, v.val), ParseValue(toks, v.next + 1))
    ELSE ParseFail

ParseMembers(toks, acc, key, v) ==
    IF ~key.ok \/ ~v.ok \/ v.next > Len(toks) THEN ParseFail
    ELSE IF toks[v.next] = <<125>>
    THEN Parsed("dict", (KeyName(key.s) :> v.val) @@ acc, v.next + 1)
    ELSE IF /\ toks[v.next] = <<44>>
            /\ v.next + 3 <= Len(toks)
            /\ IsStringToken(toks[v.next + 1])
            /\ toks[v.next + 2] = <<58>>
    THEN ParseMembers(toks, (KeyName(key.s) :> v.val) @@ acc,
                      TokenText(toks[v.next + 1]), ParseValue(toks, v.next + 3))
    ELSE ParseFail

ParseValue(toks, i) ==
    IF i > Len(toks) THEN ParseFail
    ELSE CASE toks[i] = <<91>> ->
                IF i + 1 <= Len(toks) /\ toks[i + 1] = <<93>>
                THEN Parsed("list", <<>>, i + 2)
                ELSE ParseElems(toks, <<>>, ParseValue(toks, i + 1))
           [] toks[i] = <<123>> ->
                IF i + 1 <= Len(toks) /\ toks[i + 1] = <<125>>
                THEN Parsed("dict", EmptyDict, i + 2)
                ELSE IF /\ i + 3 <= Len(toks)
                        /\ IsStringToken(toks[i + 1])
                        /\ toks[i + 2] = <<58>>
                THEN ParseMembers(toks, EmptyDict, TokenText(toks[i + 1]),
                                  ParseValue(toks, i + 3))
                ELSE ParseFail
           [] toks[i] = <<110, 117, 108, 108>> -> Parsed("null", None, i + 1)
           [] IsStringToken(toks[i]) ->
                IF TokenText(toks[i]).ok
                THEN Parsed("str", Str(TokenText(toks[i]).s), i + 1)
                ELSE ParseFail
           [] IsNumberToken(toks[i]) -> Parsed("int", PyInt(NumberValue(toks[i])), i + 1)
           [] OTHER -> ParseFail

DecodeTokens(toks) ==
    [ok   |-> \A i \in DOMAIN toks : Utf8Decode(toks[i]).ok,
     toks |-> [i \in DOMAIN toks |-> Utf8Decode(toks[i]).s]]

Loaded(kind, val) == [err |-> "none", kind |-> kind, val |-> val]
LoadError(err) == [err |-> err, kind |-> "none", val |-> None]

\* The whole document was one value: anything after it is "Extra data".
ParseDocument(toks, v) ==
    IF v.ok /\ v.next = Len(toks) + 1 THEN Loaded(v.kind, v.val)
    ELSE LoadError("JSONDecodeError")

JsonLoadDecoded(d) ==
    IF ~d.ok THEN LoadError("UnicodeDecodeError")
    ELSE ParseDocument(d.toks, ParseValue(d.toks, 1))

\* json.load(f) on a file opened with encoding="utf-8": [err, kind, val].
\* err is "none", "UnicodeDecodeError" or "JSONDecodeError".
JsonLoad(bytes) == JsonLoadDecoded(DecodeTokens(bytes))

\* ------------------------------------------------------------------ bounds

\* Calls of append_entry, load_history or a query started in one behaviour.
MaxCalls == 2

\* The callers: Spec runs caller 1 alone (strictly sequential calls), the
\* concurrent specifications run both.
Procs == {1, 2}

\* ----------------------------------------------------------------- entries

Todo(c, st, af) == [content |-> c, status |-> st, activeForm |-> af]

Pending == Str(<<112, 101, 110, 100>>)
Done == Str(<<100, 111, 110, 101>>)

Entry(sid, items) ==
    [timestamp |-> Str(<<116, 49>>), session_id |-> Str(sid),
     cwd |-> Str(<<47, 119>>), todos |-> items]

\* Well-formed entries: no items; one item; two items whose texts hold a
\* quote, a backslash, a non-ASCII letter and a character outside the BMP.
EntryEmpty == Entry(<<115, 48>>, <<>>)
EntryOne == Entry(<<115, 49>>, <<Todo(Str(<<97>>), Pending, Str(<<65>>))>>)
EntryTwo ==
    Entry(<<115, 50>>,
          <<Todo(Str(<<98, 34, 92>>), Done, Str(<<66>>)),
            Todo(Str(<<233, 127919>>), Pending, Str(<<>>))>>)

\* Entries a caller can pass although LogEntry does not describe them (a
\* TypedDict is not enforced at run time): a None content after a good
\* item, a content json cannot serialise, a content nested too deeply, an
\* item without its content key, an int content, an item with an extra key.
EntryNull ==
    Entry(<<115, 51>>,
          <<Todo(Str(<<97>>), Pending, Str(<<65>>)), Todo(None, Pending, Str(<<65>>))>>)
EntrySet == Entry(<<115, 52>>, <<Todo(PySet, Pending, Str(<<65>>))>>)
EntryDeep == Entry(<<115, 53>>, <<Todo(DeepList, Pending, Str(<<65>>))>>)
EntryNoKey ==
    Entry(<<115, 54>>,
          <<Todo(Str(<<97>>), Pending, Str(<<65>>)),
            [status |-> Pending, activeForm |-> Str(<<65>>)]>>)
EntryInt == Entry(<<115, 55>>, <<Todo(PyInt(5), Pending, Str(<<65>>))>>)
EntryExtra ==
    Entry(<<115, 56>>,
          <<[content |-> Str(<<97>>), status |-> Done, activeForm |-> Str(<<65>>),
             id |-> Str(<<120>>)]>>)

WellFormedEntries == {EntryEmpty, EntryOne, EntryTwo}
Entries ==
    WellFormedEntries
    \cup {EntryNull, EntrySet, EntryDeep, EntryNoKey, EntryInt, EntryExtra}

\* The entries the JSON backend is called with: the ones json.dump tells
\* apart (an item is a dict to it, whatever its keys and scalar values).
JsonEntries == {EntryEmpty, EntryTwo, EntryExtra, EntrySet, EntryDeep}

\* ------------------------------------------------------------------- state

VARIABLES
    kind,        \* the backend under test: "json" or "sqlite"
    calls,       \* calls started so far
    pc,          \* [Procs -> the statement each caller is at]
    entry,       \* [Procs -> the argument of the running append_entry]
    exc,         \* [Procs -> the exception in flight, "none" if none]
    result,      \* [Procs -> how the last call ended: "ok" or the exception]
    loaded,      \* [Procs -> the value the last load_history returned]
    dirExists,   \* log_file.parent exists
    target,      \* the file at log_file: [exists, readable, data]
    tmpFiles,    \* the *.tmp files of log_file.parent: name -> data
    history,     \* [Procs -> append_entry's local variable history]
    tempPath,    \* [Procs -> append_entry's local variable temp_path]
    pre,         \* [Procs -> the store as it was when the running call began]
    appended,    \* the entries whose append_entry returned, in return order
    db,          \* the committed database: [entries, todos, seqE, seqT]
    lock,        \* the caller that holds the database's write lock, 0 if none
    txn,         \* [Procs -> the open transaction of the caller's connection]
    conn,        \* [Procs -> how many connections the caller's calls left open]
    entryId,     \* [Procs -> append_entry's local variable entry_id]
    idx,         \* [Procs -> the position of append_entry's loop over the todos]
    query,       \* [Procs -> the query the last call made and its answer]
    base_dir,    \* the sandbox's base directory, as given
    user_path,   \* the user's path, a string
    resolved,    \* what the sandbox's resolve function did: "unset" before
    environ,     \* os.environ: the backend selector and the two path settings
    selPc,       \* the statement get_storage_backend is at
    backend,     \* what get_storage_backend returned or raised
    io,          \* the storage I/O get_storage_backend has done, in order
    hook         \* one run of the hook script: where main is, its input, its exit status

callVars == <<kind, calls, pc, entry, exc, result, loaded, pre, appended>>
jsonVars == <<dirExists, target, tmpFiles, history, tempPath>>
sqlVars == <<db, lock, txn, conn, entryId, idx>>
queryVars == <<query>>
pathVars == <<base_dir, user_path, resolved>>
selVars == <<environ, selPc, backend, io>>
mainVars == <<hook>>
vars == <<callVars, jsonVars, sqlVars, queryVars, pathVars, selVars, mainVars>>

\* ------------------------------------------------- JSONStorageBackend

File(data) == [exists |-> TRUE, readable |-> TRUE, data |-> data]
Absent == [exists |-> FALSE, readable |-> TRUE, data |-> <<>>]

\* What the file can hold before the first call: nothing (absent), no
\* bytes, "{corrupted", "{}", a byte that is not UTF-8, or a history that
\* the caller may not read.
InitialTargets ==
    {Absent,
     File(<<>>),
     File(<< <<123>>, <<99, 111, 114, 114, 117, 112, 116, 101, 100>> >>),
     File(<< <<123>>, <<125>> >>),
     File(<< <<91>>, <<34, 255, 34>>, <<93>> >>),
     [exists |-> TRUE, readable |-> FALSE, data |-> JsonDump(<<EntryOne>>)]}

Returned(val) == [err |-> "none", val |-> val]
Raised(err) == [err |-> err, val |-> <<>>]

\* load_history once json.load has returned or raised r: a
\* JSONDecodeError and a value that is no list both give [].
JSON_load_history_parsed(r) ==
    CASE r.err = "JSONDecodeError" -> Returned(<<>>)
      [] r.err = "UnicodeDecodeError" -> Raised("UnicodeDecodeError")
      [] OTHER -> IF r.kind # "list" THEN Returned(<<>>) ELSE Returned(r.val)

\* JSONStorageBackend.load_history on file f: the list returned, or the
\* exception that leaves the method.
JSON_load_history(f) ==
    IF ~f.exists THEN Returned(<<>>)
    ELSE IF ~f.readable THEN Returned(<<>>)
    ELSE JSON_load_history_parsed(JsonLoad(f.data))

\* The except clause of append_entry: (OSError, TypeError, ValueError).
JSON_Caught(e) == e \in {"OSError", "TypeError", "ValueError"}

\* tempfile.mkstemp: a name no file of the directory has.
FreshTemp == CHOOSE n \in 1..(Cardinality(DOMAIN tmpFiles) + 1) : n \notin DOMAIN tmpFiles

Remove(f, name) == [n \in DOMAIN f \ {name} |-> f[n]]

StoreNow == [file |-> target, db |-> db]

\* The call of caller p returns or raises: p is back at "idle", the outcome
\* is recorded and the locals of the call are gone.
EndCall(p, outcome) ==
    /\ pc' = [pc EXCEPT ![p] = "idle"]
    /\ result' = [result EXCEPT ![p] = outcome]
    /\ exc' = [exc EXCEPT ![p] = "none"]
    /\ appended' = IF outcome = "ok" THEN Append(appended, entry[p]) ELSE appended
    /\ entry' = [entry EXCEPT ![p] = EntryEmpty]

\* append_entry of the JSON backend returns or raises.
JSON_EndCall(p, outcome) ==
    /\ EndCall(p, outcome)
    /\ history' = [history EXCEPT ![p] = <<>>]
    /\ tempPath' = [tempPath EXCEPT ![p] = 0]

Goto(p, label) ==
    /\ pc' = [pc EXCEPT ![p] = label]
    /\ UNCHANGED <<result, appended, entry>>

BeginCall(p) ==
    /\ pc[p] = "idle"
    /\ calls < MaxCalls
    /\ calls' = calls + 1
    /\ pre' = [pre EXCEPT ![p] = StoreNow]
    /\ loaded' = [loaded EXCEPT ![p] = <<>>]

JSON_append_entry_call(p, e) ==
    /\ kind = "json"
    /\ BeginCall(p)
    /\ pc' = [pc EXCEPT ![p] = "mkdir"]
    /\ result' = [result EXCEPT ![p] = "running"]
    /\ entry' = [entry EXCEPT ![p] = e]
    /\ UNCHANGED <<kind, exc, appended, jsonVars, sqlVars, queryVars, pathVars, selVars, mainVars>>

\* log_file.parent.mkdir(parents=True, exist_ok=True)
JSON_append_entry_mkdir(p) ==
    /\ pc[p] = "mkdir"
    /\ \/ /\ dirExists' = TRUE
          /\ Goto(p, "load")
          /\ UNCHANGED <<exc, history, tempPath>>
       \/ /\ ~dirExists
          /\ JSON_EndCall(p, "OSError")
          /\ UNCHANGED dirExists
    /\ UNCHANGED <<kind, calls, loaded, pre, target, tmpFiles>>
    /\ UNCHANGED <<sqlVars, queryVars, pathVars, selVars, mainVars>>

\* An append_entry that starts from an empty history whatever the file
\* holds.
JSON_append_entry_loaded_fresh(p, r) ==
    IF r.err = "none"
    THEN /\ history' = [history EXCEPT ![p] = <<entry[p]>>]
         /\ Goto(p, "mkstemp")
         /\ UNCHANGED <<exc, tempPath>>
    ELSE JSON_EndCall(p, r.err)

\* history = self.load_history(); history.append(entry)
JSON_append_entry_loaded(p, r) ==
    IF r.err = "none"
    THEN /\ history' = [history EXCEPT ![p] = Append(r.val, entry[p])]
         /\ Goto(p, "mkstemp")
         /\ UNCHANGED <<exc, tempPath>>
    ELSE JSON_EndCall(p, r.err)

JSON_append_entry_load(p) ==
    /\ pc[p] = "load"
    /\ JSON_append_entry_loaded(p, JSON_load_history(target))
    /\ UNCHANGED <<kind, calls, loaded, pre, dirExists, target, tmpFiles>>
    /\ UNCHANGED <<sqlVars, queryVars, pathVars, selVars, mainVars>>

\* A temporary file of one fixed name, which every writer opens anew.
JSON_append_entry_mkstemp_one_name(p) ==
    /\ pc[p] = "mkstemp"
    /\ \/ /\ tempPath' = [tempPath EXCEPT ![p] = Len(<<p>>)]
          /\ tmpFiles' = (Len(<<p>>) :> <<>>) @@ tmpFiles
          /\ Goto(p, "write")
          /\ UNCHANGED <<exc, history>>
       \/ /\ JSON_EndCall(p, "OSError")
          /\ UNCHANGED tmpFiles
    /\ UNCHANGED <<kind, calls, loaded, pre, dirExists, target>>
    /\ UNCHANGED <<sqlVars, queryVars, pathVars, selVars, mainVars>>

\* temp_fd, temp_path = tempfile.mkstemp(dir=log_file.parent, suffix=".tmp")
JSON_append_entry_mkstemp(p) ==
    /\ pc[p] = "mkstemp"
    /\ \/ /\ tempPath' = [tempPath EXCEPT ![p] = FreshTemp]
          /\ tmpFiles' = (FreshTemp :> <<>>) @@ tmpFiles
          /\ Goto(p, "write")
          /\ UNCHANGED <<exc, history>>
       \/ /\ JSON_EndCall(p, "OSError")
          /\ UNCHANGED tmpFiles
    /\ UNCHANGED <<kind, calls, loaded, pre, dirExists, target>>
    /\ UNCHANGED <<sqlVars, queryVars, pathVars, selVars, mainVars>>

\* temp_fd is open from mkstemp, which returns it, to the end of the with
\* block around json.dump, which closes it however the block is left.
JSON_temp_fd_open(p) == pc[p] = "write"

\* A write that opens the target itself for writing instead of the
\* temporary file.
JSON_append_entry_write_in_place(p) ==
    /\ pc[p] = "write"
    /\ \/ /\ JsonDumpError(history[p]) = "none"
          /\ target' = File(JsonDump(history[p]))
          /\ Goto(p, "replace")
          /\ UNCHANGED exc
       \/ /\ target' = File(JsonDumpPartial(history[p]))
          /\ exc' = [exc EXCEPT ![p] = "OSError"]
          /\ Goto(p, "cleanup")
    /\ UNCHANGED <<kind, calls, loaded, pre, dirExists, tmpFiles, history, tempPath>>
    /\ UNCHANGED <<sqlVars, queryVars, pathVars, selVars, mainVars>>

\* with os.fdopen(temp_fd, "w", encoding="utf-8") as f: json.dump(...)
\* A raised exception that the except clause names goes to the clean-up,
\* any other leaves append_entry at once.
JSON_append_entry_write(p) ==
    /\ pc[p] = "write"
    /\ \/ /\ JsonDumpError(history[p]) = "none"
          /\ tmpFiles' = [tmpFiles EXCEPT ![tempPath[p]] = JsonDump(history[p])]
          /\ Goto(p, "replace")
          /\ UNCHANGED <<exc, history, tempPath>>
       \/ /\ JsonDumpError(history[p]) = "none"
          /\ tmpFiles' = [tmpFiles EXCEPT ![tempPath[p]] = JsonDumpPartial(history[p])]
          /\ exc' = [exc EXCEPT ![p] = "OSError"]
          /\ Goto(p, "cleanup")
          /\ UNCHANGED <<history, tempPath>>
       \/ /\ JsonDumpError(history[p]) # "none"
          /\ tmpFiles' = [tmpFiles EXCEPT ![tempPath[p]] = JsonDumpPartial(history[p])]
          /\ IF JSON_Caught(JsonDumpError(history[p]))
             THEN /\ exc' = [exc EXCEPT ![p] = JsonDumpError(history[p])]
                  /\ Goto(p, "cleanup")
                  /\ UNCHANGED <<history, tempPath>>
             ELSE JSON_EndCall(p, JsonDumpError(history[p]))
    /\ UNCHANGED <<kind, calls, loaded, pre, dirExists, target>>
    /\ UNCHANGED <<sqlVars, queryVars, pathVars, selVars, mainVars>>

\* A replace that deletes the target and then creates it, and can fail in
\* between.
JSON_append_entry_delete_then_create(p) ==
    /\ pc[p] = "replace"
    /\ \/ /\ target' = File(tmpFiles[tempPath[p]])
          /\ tmpFiles' = Remove(tmpFiles, tempPath[p])
          /\ JSON_EndCall(p, "ok")
       \/ /\ target' = Absent
          /\ exc' = [exc EXCEPT ![p] = "OSError"]
          /\ Goto(p, "cleanup")
          /\ UNCHANGED <<tmpFiles, history, tempPath>>
    /\ UNCHANGED <<kind, calls, loaded, pre, dirExists>>
    /\ UNCHANGED <<sqlVars, queryVars, pathVars, selVars, mainVars>>

\* A rename that reads the target again and appends the entry to what it
\* holds then, in one step.
JSON_append_entry_replace_merging(p) ==
    /\ pc[p] = "replace"
    /\ \/ /\ target' = File(JsonDump(Append(JSON_load_history(target).val, entry[p])))
          /\ tmpFiles' = Remove(tmpFiles, tempPath[p])
          /\ JSON_EndCall(p, "ok")
       \/ /\ exc' = [exc EXCEPT ![p] = "OSError"]
          /\ Goto(p, "cleanup")
          /\ UNCHANGED <<target, tmpFiles, history, tempPath>>
    /\ UNCHANGED <<kind, calls, loaded, pre, dirExists>>
    /\ UNCHANGED <<sqlVars, queryVars, pathVars, selVars, mainVars>>

\* A last step that writes the new history after the bytes the target
\* already holds.
JSON_append_entry_replace_appending(p) ==
    /\ pc[p] = "replace"
    /\ \/ /\ target' = File(target.data \o tmpFiles[tempPath[p]])
          /\ tmpFiles' = Remove(tmpFiles, tempPath[p])
          /\ JSON_EndCall(p, "ok")
       \/ /\ exc' = [exc EXCEPT ![p] = "OSError"]
          /\ Goto(p, "cleanup")
          /\ UNCHANGED <<target, tmpFiles, history, tempPath>>
    /\ UNCHANGED <<kind, calls, loaded, pre, dirExists>>
    /\ UNCHANGED <<sqlVars, queryVars, pathVars, selVars, mainVars>>

\* os.replace(temp_path, self.log_file)
JSON_append_entry_replace(p) ==
    /\ pc[p] = "replace"
    /\ \/ /\ target' = File(tmpFiles[tempPath[p]])
          /\ tmpFiles' = Remove(tmpFiles, tempPath[p])
          /\ JSON_EndCall(p, "ok")
       \/ /\ exc' = [exc EXCEPT ![p] = "OSError"]
          /\ Goto(p, "cleanup")
          /\ UNCHANGED <<target, tmpFiles, history, tempPath>>
    /\ UNCHANGED <<kind, calls, loaded, pre, dirExists>>
    /\ UNCHANGED <<sqlVars, queryVars, pathVars, selVars, mainVars>>

\* except (OSError, TypeError, ValueError): try: os.unlink(temp_path)
\* except OSError: pass; raise
JSON_append_entry_cleanup(p) ==
    /\ pc[p] = "cleanup"
    /\ \/ tmpFiles' = Remove(tmpFiles, tempPath[p])
       \/ UNCHANGED tmpFiles
    /\ JSON_EndCall(p, exc[p])
    /\ UNCHANGED <<kind, calls, loaded, pre, dirExists, target>>
    /\ UNCHANGED <<sqlVars, queryVars, pathVars, selVars, mainVars>>

JSON_load_history_return(p, r) ==
    /\ result' = [result EXCEPT ![p] = IF r.err = "none" THEN "loaded" ELSE r.err]
    /\ loaded' = [loaded EXCEPT ![p] = r.val]

\* A load_history that opens the file for appending and reading, which
\* creates it when it is not there.
JSON_load_history_call_creating(p) ==
    /\ kind = "json"
    /\ pc[p] = "idle"
    /\ calls < MaxCalls
    /\ calls' = calls + 1
    /\ JSON_load_history_return(p, JSON_load_history(target))
    /\ pre' = [pre EXCEPT ![p] = StoreNow]
    /\ target' = IF target.exists \/ ~dirExists THEN target ELSE File(<<>>)
    /\ UNCHANGED <<dirExists, tmpFiles, history, tempPath>>
    /\ UNCHANGED <<kind, pc, entry, exc, appended, sqlVars, queryVars, pathVars, selVars, mainVars>>

\* A call of load_history, from entry to return.
JSON_load_history_call(p) ==
    /\ kind = "json"
    /\ pc[p] = "idle"
    /\ calls < MaxCalls
    /\ calls' = calls + 1
    /\ JSON_load_history_return(p, JSON_load_history(target))
    /\ pre' = [pre EXCEPT ![p] = StoreNow]
    /\ UNCHANGED <<kind, pc, entry, exc, appended, jsonVars, sqlVars, queryVars, pathVars, selVars, mainVars>>

JSON_step(p) ==
    \/ \E e \in JsonEntries : JSON_append_entry_call(p, e)
    \/ JSON_append_entry_mkdir(p)
    \/ JSON_append_entry_load(p)
    \/ JSON_append_entry_mkstemp(p)
    \/ JSON_append_entry_write(p)
    \/ JSON_append_entry_replace(p)
    \/ JSON_append_entry_cleanup(p)
    \/ JSON_load_history_call(p)

\* ------------------------------------------------ SQLiteStorageBackend

EmptyDb == [entries |-> {}, todos |-> {}, seqE |-> 0, seqT |-> 0]
NoTxn == [active |-> FALSE, work |-> EmptyDb]

\* The columns are TEXT: sqlite3 binds a str as it is and None as NULL, and
\* the column's affinity turns an int into its decimal text.
SQLite_StoreText(v) == IF v.k = "int" THEN Str(Digits(v.s[1])) ELSE v

\* The sqlite3.Error that binding and inserting the values vals raises,
\* "none" if the row is inserted: a type sqlite3 cannot bind, or a NULL in
\* a NOT NULL column.
SQLite_InsertError(vals) ==
    IF \E i \in DOMAIN vals : vals[i].k \in {"set", "deep"} THEN "ProgrammingError"
    ELSE IF \E i \in DOMAIN vals : vals[i].k = "null" THEN "IntegrityError"
    ELSE "none"

\* INSERT INTO log_entries: AUTOINCREMENT gives the row the id after the
\* largest ever used, which sqlite_sequence holds.
SQLite_InsertEntry(work, e) ==
    [work EXCEPT
       !.entries = @ \cup {[id |-> work.seqE + 1,
                           timestamp |-> SQLite_StoreText(e.timestamp),
                           session_id |-> SQLite_StoreText(e.session_id),
                           cwd |-> SQLite_StoreText(e.cwd)]},
       !.seqE = @ + 1]

\* An INSERT INTO todos that reads cursor.lastrowid anew for every item:
\* after the first item it is the id of the item row inserted last.
SQLite_InsertTodoLastRowId(work, eid, todo) ==
    [work EXCEPT
       !.todos = @ \cup {[id |-> work.seqT + 1,
                         entry_id |-> IF \E t \in work.todos : t.entry_id = eid
                                      THEN work.seqT ELSE eid,
                         content |-> SQLite_StoreText(todo.content),
                         status |-> SQLite_StoreText(todo.status),
                         active_form |-> SQLite_StoreText(todo.activeForm)]},
       !.seqT = @ + 1]

\* INSERT INTO todos (entry_id, content, status, active_form)
SQLite_InsertTodo(work, eid, todo) ==
    [work EXCEPT
       !.todos = @ \cup {[id |-> work.seqT + 1,
                         entry_id |-> eid,
                         content |-> SQLite_StoreText(todo.content),
                         status |-> SQLite_StoreText(todo.status),
                         active_form |-> SQLite_StoreText(todo.activeForm)]},
       !.seqT = @ + 1]

\* The rows of a table by descending id.
RECURSIVE SortByIdDescending(_)
SortByIdDescending(rows) ==
    IF rows = {} THEN <<>>
    ELSE LET last == CHOOSE r \in rows : \A q \in rows : r.id >= q.id
         IN  <<last>> \o SortByIdDescending(rows \ {last})

\* The rows of a table by ascending id (ORDER BY id).
RECURSIVE SortById(_)
SortById(rows) ==
    IF rows = {} THEN <<>>
    ELSE LET first == CHOOSE r \in rows : \A q \in rows : r.id <= q.id
         IN  <<first>> \o SortById(rows \ {first})

JoinedRow(e, c, st, af) ==
    [id |-> e.id, timestamp |-> e.timestamp, session_id |-> e.session_id,
     cwd |-> e.cwd, content |-> c, status |-> st, active_form |-> af]

\* The rows of one entry in the LEFT JOIN: one per item, by t.id, or one
\* with NULL item columns when the entry has no item.
RECURSIVE JoinItems(_, _)
JoinItems(e, items) ==
    IF items = <<>> THEN <<>>
    ELSE <<JoinedRow(e, Head(items).content, Head(items).status,
                     Head(items).active_form)>>
         \o JoinItems(e, Tail(items))

JoinEntry(e, items) ==
    IF items = <<>> THEN <<JoinedRow(e, None, None, None)>> ELSE JoinItems(e, items)

\* SELECT ... FROM log_entries e LEFT JOIN todos t ON e.id = t.entry_id
\* ORDER BY e.id, t.id, over the entry rows es.
RECURSIVE LeftJoin(_, _)
LeftJoin(es, todos) ==
    IF es = <<>> THEN <<>>
    ELSE JoinEntry(Head(es), SortById({t \in todos : t.entry_id = Head(es).id}))
         \o LeftJoin(Tail(es), todos)

\* A loop over the cursor that does not look the entry id up in
\* entries_map: every joined row starts an entry.
GroupAddPerRow(acc, row) ==
    Append(acc, [id |-> row.id,
                 entry |-> [timestamp |-> row.timestamp,
                            session_id |-> row.session_id,
                            cwd |-> row.cwd,
                            todos |-> IF row.content = None THEN <<>>
                                      ELSE <<Todo(row.content, row.status,
                                                  row.active_form)>>]])

\* A loop over the cursor without the test for the NULL columns: every
\* joined row gives an item.
GroupAddPhantom(acc, row) ==
    LET seen == \E i \in DOMAIN acc : acc[i].id = row.id
        acc2 == IF seen THEN acc
                ELSE Append(acc, [id |-> row.id,
                                  entry |-> [timestamp |-> row.timestamp,
                                             session_id |-> row.session_id,
                                             cwd |-> row.cwd,
                                             todos |-> <<>>]])
    IN  [i \in DOMAIN acc2 |->
           IF acc2[i].id = row.id
           THEN [acc2[i] EXCEPT !.entry.todos =
                    Append(@, Todo(row.content, row.status, row.active_form))]
           ELSE acc2[i]]

\* The loop over the cursor: entries_map, a dict keyed by entry id, as the
\* sequence of its [id, entry] pairs in insertion order.
GroupAdd(acc, row) ==
    LET seen == \E i \in DOMAIN acc : acc[i].id = row.id
        acc2 == IF seen THEN acc
                ELSE Append(acc, [id |-> row.id,
                                  entry |-> [timestamp |-> row.timestamp,
                                             session_id |-> row.session_id,
                                             cwd |-> row.cwd,
                                             todos |-> <<>>]])
    IN  IF row.content = None THEN acc2
        ELSE [i \in DOMAIN acc2 |->
                IF acc2[i].id = row.id
                THEN [acc2[i] EXCEPT !.entry.todos =
                         Append(@, Todo(row.content, row.status, row.active_form))]
                ELSE acc2[i]]

RECURSIVE GroupRows(_, _)
GroupRows(rows, acc) ==
    IF rows = <<>> THEN acc ELSE GroupRows(Tail(rows), GroupAdd(acc, Head(rows)))

MapValues(acc) == [i \in DOMAIN acc |-> acc[i].entry]

\* Sequence a comes before sequence b in the order of strings.
RECURSIVE TextBefore(_, _)
TextBefore(a, b) ==
    IF b = <<>> THEN FALSE
    ELSE IF a = <<>> THEN TRUE
    ELSE IF Head(a) # Head(b) THEN Head(a) < Head(b)
    ELSE TextBefore(Tail(a), Tail(b))

\* The entry rows by timestamp, rows of one timestamp by id (ORDER BY
\* e.timestamp, e.id).
RECURSIVE SortByTimestamp(_)
SortByTimestamp(rows) ==
    IF rows = {} THEN <<>>
    ELSE LET first == CHOOSE r \in rows :
                         \A q \in rows :
                            \/ TextBefore(r.timestamp.s, q.timestamp.s)
                            \/ r.timestamp = q.timestamp /\ r.id <= q.id
         IN  <<first>> \o SortByTimestamp(rows \ {first})

\* A load_history whose query orders the entries by their timestamps.
SQLite_load_history_by_timestamp(d) ==
    MapValues(GroupRows(LeftJoin(SortByTimestamp(d.entries), d.todos), <<>>))

\* SQLiteStorageBackend.load_history on the committed database d.
SQLite_load_history(d) ==
    MapValues(GroupRows(LeftJoin(SortById(d.entries), d.todos), <<>>))

\* The item rows as the dicts the queries and load_history build.
TodoDicts(rows) ==
    [i \in DOMAIN rows |-> Todo(rows[i].content, rows[i].status, rows[i].active_form)]

\* A query by session over an inner join, which has no row for an entry
\* without items.
SQLite_get_entries_by_session_inner_join(d, session_id) ==
    MapValues(GroupRows(LeftJoin(SortById({e \in d.entries :
                                             /\ e.session_id = session_id
                                             /\ \E t \in d.todos : t.entry_id = e.id}),
                                 d.todos), <<>>))

\* SQLiteStorageBackend.get_entries_by_session on the committed database
\* d: the LEFT JOIN WHERE e.session_id = ? ORDER BY e.id, t.id, and the
\* same loop over the cursor as load_history's.
SQLite_get_entries_by_session(d, session_id) ==
    MapValues(GroupRows(LeftJoin(SortById({e \in d.entries : e.session_id = session_id}),
                                 d.todos), <<>>))

\* A query by status that gives the newest item first.
SQLite_get_todos_by_status_descending(d, status) ==
    TodoDicts(SortByIdDescending({t \in d.todos : t.status = status}))

\* SQLiteStorageBackend.get_todos_by_status on the committed database d:
\* SELECT content, status, active_form FROM todos WHERE status = ? ORDER BY id
SQLite_get_todos_by_status(d, status) ==
    TodoDicts(SortById({t \in d.todos : t.status = status}))

\* No query was made by the last call; a query and the list it returned.
NoQuery == [op |-> "none", arg |-> None, rows |-> <<>>]
Queried(op, arg, rows) == [op |-> op, arg |-> arg, rows |-> rows]

\* The session ids and status values the queries are called with: those
\* of the well-formed entries and one that no entry has.
NoSuch == Str(<<122, 122>>)
QuerySessions ==
    {EntryEmpty.session_id, EntryOne.session_id, EntryTwo.session_id, NoSuch}
QueryStatuses == {Pending, Done, NoSuch}

\* append_entry of the SQLite backend returns or raises.
SQLite_EndCall(p, outcome) ==
    /\ EndCall(p, outcome)
    /\ entryId' = [entryId EXCEPT ![p] = 0]
    /\ idx' = [idx EXCEPT ![p] = 0]

SQLite_append_entry_call(p, e) ==
    /\ kind = "sqlite"
    /\ BeginCall(p)
    /\ pc' = [pc EXCEPT ![p] = "connect"]
    /\ result' = [result EXCEPT ![p] = "running"]
    /\ entry' = [entry EXCEPT ![p] = e]
    /\ UNCHANGED <<kind, exc, appended, jsonVars, sqlVars, pathVars, selVars, mainVars>>
    /\ query' = [query EXCEPT ![p] = NoQuery]

\* The connections left open are counted up to this many for each caller.
MaxOpen == 1

\* _connect returns the connection it opened and configured.
SQLite_connect(p) == conn' = [conn EXCEPT ![p] = @ + 1]

\* _connect raises: mkdir or sqlite3.connect failed and there is no
\* connection, or one of the two PRAGMAs failed on the connection that
\* sqlite3.connect had opened, and nothing closes that one: the caller's
\* try/finally begins after _connect has returned.
SQLite_connect_raised(p) ==
    \/ UNCHANGED conn
    \/ conn[p] < MaxOpen /\ conn' = [conn EXCEPT ![p] = @ + 1]

\* conn = self._connect(): mkdir, sqlite3.connect, the two PRAGMAs.
SQLite_append_entry_connect(p) ==
    /\ pc[p] = "connect"
    /\ \/ /\ SQLite_connect(p)
          /\ Goto(p, "insert_entry")
          /\ UNCHANGED <<exc, entryId, idx>>
       \/ /\ SQLite_EndCall(p, "OperationalError")
          /\ SQLite_connect_raised(p)
    /\ UNCHANGED <<kind, calls, loaded, pre, db, lock, txn, jsonVars, queryVars, pathVars, selVars, mainVars>>

\* An exception leaves the try block: a sqlite3.Error goes to the except
\* clause (rollback), any other straight to the finally clause (close).
SQLite_Raise(p, err) ==
    /\ exc' = [exc EXCEPT ![p] = err]
    /\ Goto(p, IF err = "KeyError" THEN "close" ELSE "rollback")

\* An insert under a deferred transaction: it begins without waiting for
\* the write lock.
SQLite_append_entry_insert_entry_deferred(p) ==
    /\ pc[p] = "insert_entry"
    /\ lock' = p
    /\ txn' = [txn EXCEPT ![p] =
                  [active |-> TRUE, work |-> SQLite_InsertEntry(db, entry[p])]]
    /\ entryId' = [entryId EXCEPT ![p] = db.seqE + 1]
    /\ idx' = [idx EXCEPT ![p] = 1]
    /\ Goto(p, IF entry[p].todos = <<>> THEN "commit" ELSE "insert_todo")
    /\ UNCHANGED exc
    /\ UNCHANGED <<kind, calls, loaded, pre, db, conn, jsonVars, queryVars, pathVars, selVars, mainVars>>

\* An insert that gives up without a word when another connection holds
\* the write lock: the call goes on to close the connection and returns.
SQLite_append_entry_insert_entry_skipping_when_busy(p) ==
    /\ pc[p] = "insert_entry"
    /\ LET vals == <<entry[p].timestamp, entry[p].session_id, entry[p].cwd>> IN
       \/ /\ lock \notin {0, p}
          /\ Goto(p, "close")
          /\ UNCHANGED <<exc, lock, txn, entryId, idx>>
       \/ /\ lock \in {0, p}
          /\ lock' = p
          /\ IF SQLite_InsertError(vals) # "none"
             THEN /\ SQLite_Raise(p, SQLite_InsertError(vals))
                  /\ txn' = [txn EXCEPT ![p] = [active |-> TRUE, work |-> db]]
                  /\ UNCHANGED <<entryId, idx>>
             ELSE /\ txn' = [txn EXCEPT ![p] =
                                [active |-> TRUE, work |-> SQLite_InsertEntry(db, entry[p])]]
                  /\ entryId' = [entryId EXCEPT ![p] = db.seqE + 1]
                  /\ idx' = [idx EXCEPT ![p] = 1]
                  /\ Goto(p, IF entry[p].todos = <<>> THEN "commit" ELSE "insert_todo")
                  /\ UNCHANGED exc
    /\ UNCHANGED <<kind, calls, loaded, pre, db, conn, jsonVars, queryVars, pathVars, selVars, mainVars>>

\* cursor.execute("INSERT INTO log_entries ..."): the connection's
\* isolation_level makes sqlite3 run BEGIN IMMEDIATE first, which takes the
\* write lock or, while another connection holds it, fails as busy.
SQLite_append_entry_insert_entry(p) ==
    /\ pc[p] = "insert_entry"
    /\ LET vals == <<entry[p].timestamp, entry[p].session_id, entry[p].cwd>> IN
       \/ /\ lock \notin {0, p}
          /\ SQLite_Raise(p, "OperationalError")
          /\ UNCHANGED <<lock, txn, entryId, idx>>
       \/ /\ lock \in {0, p}
          /\ lock' = p
          /\ IF SQLite_InsertError(vals) # "none"
             THEN /\ SQLite_Raise(p, SQLite_InsertError(vals))
                  /\ txn' = [txn EXCEPT ![p] = [active |-> TRUE, work |-> db]]
                  /\ UNCHANGED <<entryId, idx>>
             ELSE /\ txn' = [txn EXCEPT ![p] =
                                [active |-> TRUE, work |-> SQLite_InsertEntry(db, entry[p])]]
                  /\ entryId' = [entryId EXCEPT ![p] = db.seqE + 1]
                  /\ idx' = [idx EXCEPT ![p] = 1]
                  /\ Goto(p, IF entry[p].todos = <<>> THEN "commit" ELSE "insert_todo")
                  /\ UNCHANGED exc
    /\ UNCHANGED <<kind, calls, loaded, pre, db, conn, jsonVars, queryVars, pathVars, selVars, mainVars>>

\* One turn of: for todo in entry["todos"]: cursor.execute("INSERT INTO
\* todos ...", (entry_id, todo["content"], todo["status"], todo["activeForm"]))
SQLite_append_entry_insert_todo(p) ==
    /\ pc[p] = "insert_todo"
    /\ LET todo == entry[p].todos[idx[p]] IN
       \/ /\ ~({"content", "status", "activeForm"} \subseteq DOMAIN todo)
          /\ SQLite_Raise(p, "KeyError")
          /\ UNCHANGED <<txn, idx>>
       \/ /\ {"content", "status", "activeForm"} \subseteq DOMAIN todo
          /\ LET vals == <<todo.content, todo.status, todo.activeForm>> IN
             IF SQLite_InsertError(vals) # "none"
             THEN /\ SQLite_Raise(p, SQLite_InsertError(vals))
                  /\ UNCHANGED <<txn, idx>>
             ELSE /\ txn' = [txn EXCEPT ![p].work =
                                SQLite_InsertTodo(@, entryId[p], todo)]
                  /\ idx' = [idx EXCEPT ![p] = @ + 1]
                  /\ Goto(p, IF idx[p] = Len(entry[p].todos)
                             THEN "commit" ELSE "insert_todo")
                  /\ UNCHANGED exc
       \/ /\ SQLite_Raise(p, "OperationalError")
          /\ UNCHANGED <<txn, idx>>
    /\ UNCHANGED <<kind, calls, loaded, pre, db, lock, conn, entryId, jsonVars, queryVars, pathVars, selVars, mainVars>>

\* What ends a connection's transaction leaves: no transaction, and the
\* write lock free if this connection held it.
SQLite_Unlock(p) == IF lock = p THEN 0 ELSE lock

\* conn.commit()
SQLite_append_entry_commit(p) ==
    /\ pc[p] = "commit"
    /\ \/ /\ db' = txn[p].work
          /\ txn' = [txn EXCEPT ![p] = NoTxn]
          /\ lock' = SQLite_Unlock(p)
          /\ Goto(p, "close")
          /\ UNCHANGED exc
       \/ /\ SQLite_Raise(p, "OperationalError")
          /\ UNCHANGED <<db, txn, lock>>
    /\ UNCHANGED <<kind, calls, loaded, pre, conn, entryId, idx, jsonVars, queryVars, pathVars, selVars, mainVars>>

\* A rollback that undoes the rows but keeps the AUTOINCREMENT counters
\* where the failed transaction left them.
SQLite_append_entry_rollback_keeping_sequence(p) ==
    /\ pc[p] = "rollback"
    /\ db' = IF txn[p].active
             THEN [db EXCEPT !.seqE = txn[p].work.seqE, !.seqT = txn[p].work.seqT]
             ELSE db
    /\ txn' = [txn EXCEPT ![p] = NoTxn]
    /\ lock' = SQLite_Unlock(p)
    /\ Goto(p, "close")
    /\ UNCHANGED <<kind, calls, exc, loaded, pre, conn, entryId, idx, jsonVars, queryVars, pathVars, selVars, mainVars>>

\* An except clause whose failed rollback is raised in place of the error
\* that brought the call there.
SQLite_append_entry_rollback_raising(p) ==
    /\ pc[p] = "rollback"
    /\ \/ /\ txn' = [txn EXCEPT ![p] = NoTxn]
          /\ lock' = SQLite_Unlock(p)
          /\ UNCHANGED exc
       \/ /\ UNCHANGED <<txn, lock>>
          /\ exc' = [exc EXCEPT ![p] = "OperationalError"]
    /\ Goto(p, "close")
    /\ UNCHANGED <<kind, calls, loaded, pre, db, conn, entryId, idx, jsonVars, queryVars, pathVars, selVars, mainVars>>

\* except sqlite3.Error: try: conn.rollback() except sqlite3.Error: pass; raise
SQLite_append_entry_rollback(p) ==
    /\ pc[p] = "rollback"
    /\ \/ /\ txn' = [txn EXCEPT ![p] = NoTxn]
          /\ lock' = SQLite_Unlock(p)
       \/ UNCHANGED <<txn, lock>>
    /\ Goto(p, "close")
    /\ UNCHANGED <<kind, calls, exc, loaded, pre, db, conn, entryId, idx, jsonVars, queryVars, pathVars, selVars, mainVars>>

\* A close that commits what the connection's open transaction holds.
SQLite_append_entry_close_committing(p) ==
    /\ pc[p] = "close"
    /\ db' = IF txn[p].active THEN txn[p].work ELSE db
    /\ txn' = [txn EXCEPT ![p] = NoTxn]
    /\ lock' = SQLite_Unlock(p)
    /\ conn' = [conn EXCEPT ![p] = @ - 1]
    /\ SQLite_EndCall(p, IF exc[p] = "none" THEN "ok" ELSE exc[p])
    /\ UNCHANGED <<kind, calls, loaded, pre, jsonVars, queryVars, pathVars, selVars, mainVars>>

\* finally: conn.close(): closing a connection rolls its open transaction
\* back.
SQLite_append_entry_close(p) ==
    /\ pc[p] = "close"
    /\ txn' = [txn EXCEPT ![p] = NoTxn]
    /\ lock' = SQLite_Unlock(p)
    /\ conn' = [conn EXCEPT ![p] = @ - 1]
    /\ SQLite_EndCall(p, IF exc[p] = "none" THEN "ok" ELSE exc[p])
    /\ UNCHANGED <<kind, calls, loaded, pre, db, jsonVars, queryVars, pathVars, selVars, mainVars>>

\* A call of load_history, from entry to return: the SELECT reads the
\* committed rows (a WAL reader's snapshot).
SQLite_load_history_call(p) ==
    /\ kind = "sqlite"
    /\ pc[p] = "idle"
    /\ calls < MaxCalls
    /\ calls' = calls + 1
    /\ \/ /\ result' = [result EXCEPT ![p] = "loaded"]
          /\ loaded' = [loaded EXCEPT ![p] = SQLite_load_history(db)]
          /\ UNCHANGED conn
       \/ /\ result' = [result EXCEPT ![p] = "OperationalError"]
          /\ loaded' = [loaded EXCEPT ![p] = <<>>]
          /\ SQLite_connect_raised(p)
    /\ pre' = [pre EXCEPT ![p] = StoreNow]
    /\ UNCHANGED <<kind, pc, entry, exc, appended, jsonVars, pathVars, selVars, mainVars>>
    /\ UNCHANGED <<db, lock, txn, entryId, idx>>
    /\ query' = [query EXCEPT ![p] = NoQuery]

SQLite_step(p) ==
    \/ \E e \in Entries : SQLite_append_entry_call(p, e)
    \/ SQLite_append_entry_connect(p)
    \/ SQLite_append_entry_insert_entry(p)
    \/ SQLite_append_entry_insert_todo(p)
    \/ SQLite_append_entry_commit(p)
    \/ SQLite_append_entry_rollback(p)
    \/ SQLite_append_entry_close(p)
    \/ SQLite_load_history_call(p)

\* A query, from entry to return: it reads the committed rows on a
\* connection of its own, or raises the sqlite3.Error of the connection.
SQLite_query_return(p, op, arg, rows) ==
    /\ kind = "sqlite"
    /\ pc[p] = "idle"
    /\ \/ /\ result' = [result EXCEPT ![p] = "queried"]
          /\ query' = [query EXCEPT ![p] = Queried(op, arg, rows)]
          /\ UNCHANGED conn
       \/ /\ result' = [result EXCEPT ![p] = "OperationalError"]
          /\ query' = [query EXCEPT ![p] = Queried(op, arg, <<>>)]
          /\ SQLite_connect_raised(p)
    /\ pre' = [pre EXCEPT ![p] = StoreNow]
    /\ UNCHANGED <<kind, calls, pc, entry, exc, loaded, appended>>
    /\ UNCHANGED <<db, lock, txn, entryId, idx>>
    /\ UNCHANGED <<jsonVars, pathVars, selVars, mainVars>>

SQLite_get_entries_by_session_call(p, session_id) ==
    SQLite_query_return(p, "session", session_id,
                        SQLite_get_entries_by_session(db, session_id))

SQLite_get_todos_by_status_call(p, status) ==
    SQLite_query_return(p, "status", status, SQLite_get_todos_by_status(db, status))

\* A schema script that drops the tables before it creates them.
SQLite_ensure_schema_recreating(d) == [err |-> "none", db |-> EmptyDb]

\* _ensure_schema on a database whose tables and indexes exist: every
\* statement of SCHEMA_SQL is a CREATE ... IF NOT EXISTS, which finds its
\* table or index there, creates nothing and raises nothing; the commit
\* has nothing to write.
SQLite_ensure_schema(d) == [err |-> "none", db |-> d]

\* SQLiteStorageBackend(db_path) on a database that exists: _connect
\* raises the sqlite3.Error of a connection that cannot be opened, or
\* _ensure_schema runs the script on a connection of its own and closes it.
SQLiteStorageBackend_init_again(p) ==
    /\ kind = "sqlite"
    /\ pc[p] = "idle"
    /\ \/ /\ result' = [result EXCEPT ![p] = "OperationalError"]
          /\ db' = db
          /\ SQLite_connect_raised(p)
       \/ /\ result' = [result EXCEPT ![p] =
                           IF SQLite_ensure_schema(db).err = "none"
                           THEN "constructed"
                           ELSE SQLite_ensure_schema(db).err]
          /\ db' = SQLite_ensure_schema(db).db
          /\ UNCHANGED conn
    /\ query' = [query EXCEPT ![p] = NoQuery]
    /\ pre' = [pre EXCEPT ![p] = StoreNow]
    /\ UNCHANGED <<kind, calls, pc, entry, exc, loaded, appended>>
    /\ UNCHANGED <<lock, txn, entryId, idx>>
    /\ UNCHANGED <<jsonVars, pathVars, selVars, mainVars>>

\* JSONStorageBackend(log_file): self.log_file = log_file, nothing else.
JSONStorageBackend_init(p) ==
    /\ kind = "json"
    /\ pc[p] = "idle"
    /\ result' = [result EXCEPT ![p] = "constructed"]
    /\ pre' = [pre EXCEPT ![p] = StoreNow]
    /\ UNCHANGED <<kind, calls, pc, entry, exc, loaded, appended>>
    /\ UNCHANGED <<jsonVars, sqlVars, queryVars, pathVars, selVars, mainVars>>

\* The calls that write nothing: the two queries and the construction of
\* a backend object on the store that is there.
Read_step(p) ==
    \/ \E s \in QuerySessions : SQLite_get_entries_by_session_call(p, s)
    \/ \E s \in QueryStatuses : SQLite_get_todos_by_status_call(p, s)
    \/ SQLiteStorageBackend_init_again(p)
    \/ JSONStorageBackend_init(p)

\* --------------------------------------------------------- path sandbox

\* A string is a sequence of code points, a path a sequence of components.
\* str.isspace, for the code points below 256.
IsSpace(c) == c \in {9, 10, 11, 12, 13, 28, 29, 30, 31, 32, 133, 160}

RECURSIVE lstrip(_)
lstrip(s) == IF s # <<>> /\ IsSpace(Head(s)) THEN lstrip(Tail(s)) ELSE s

RECURSIVE rstrip(_)
rstrip(s) ==
    IF s # <<>> /\ IsSpace(s[Len(s)]) THEN rstrip(SubSeq(s, 1, Len(s) - 1)) ELSE s

\* str.strip()
strip(s) == rstrip(lstrip(s))

Slash == 47
Dot == <<46>>
DotDot == <<46, 46>>

\* s.split("/"), cur being the piece read so far.
RECURSIVE SplitSlash(_, _)
SplitSlash(s, cur) ==
    IF s = <<>> THEN <<cur>>
    ELSE IF Head(s) = Slash THEN <<cur>> \o SplitSlash(Tail(s), <<>>)
    ELSE SplitSlash(Tail(s), Append(cur, Head(s)))

\* Path(s): pathlib drops the empty and the "." components and keeps "..".
IsKeptPart(c) == c # <<>> /\ c # Dot
PathParts(s) == SelectSeq(SplitSlash(s, <<>>), IsKeptPart)
is_absolute(s) == s # <<>> /\ s[1] = Slash

\* candidate = Path(user_path); if not candidate.is_absolute(): candidate
\* = base_dir / candidate. A directory is the sequence of its components
\* from the root.
Candidate(base, user) ==
    IF is_absolute(user) THEN PathParts(user) ELSE base \o PathParts(user)

\* The file system the paths are resolved on: the directories /p, /p/d and
\* /e, and the symbolic links /p/l -> /e, /p/u -> .., /p/m -> d,
\* /p/o -> o (a loop), /b -> p and /p/.claude -> /e.
NameP == <<112>>
NameB == <<98>>
NameE == <<101>>
NameL == <<108>>
NameU == <<117>>
NameM == <<109>>
NameO == <<111>>
NameD == <<100>>
DotClaude == <<46, 99, 108, 97, 117, 100, 101>>
Symlinks ==
    {[path |-> <<NameP, NameL>>, to |-> <<Slash>> \o NameE],
     [path |-> <<NameP, NameU>>, to |-> DotDot],
     [path |-> <<NameP, NameM>>, to |-> NameD],
     [path |-> <<NameP, NameO>>, to |-> NameO],
     [path |-> <<NameB>>, to |-> NameP],
     [path |-> <<NameP, DotClaude>>, to |-> <<Slash>> \o NameE]}

islink(path) == \E l \in Symlinks : l.path = path
readlink(path) == (CHOOSE l \in Symlinks : l.path = path).to

Parent(path) == IF path = <<>> THEN <<>> ELSE SubSeq(path, 1, Len(path) - 1)

Walked(path) == [ok |-> TRUE, path |-> path]
Looped(path) == [ok |-> FALSE, path |-> path]

\* posixpath.realpath, not strict: the components of rest are walked from
\* the directory path; ".." goes to the parent of what is resolved so far,
\* a symbolic link is replaced by its resolved target, a name that does not
\* exist is kept, and a link met while it is being resolved is a loop.
RECURSIVE JoinRealpath(_, _, _)
RECURSIVE AfterLink(_, _, _)
JoinRealpath(path, rest, active) ==
    IF rest = <<>> THEN Walked(path)
    ELSE IF Head(rest) \in {<<>>, Dot} THEN JoinRealpath(path, Tail(rest), active)
    ELSE IF Head(rest) = DotDot THEN JoinRealpath(Parent(path), Tail(rest), active)
    ELSE IF ~islink(Append(path, Head(rest)))
         THEN JoinRealpath(Append(path, Head(rest)), Tail(rest), active)
    ELSE IF Append(path, Head(rest)) \in active
         THEN Looped(Append(path, Head(rest)) \o Tail(rest))
    ELSE AfterLink(JoinRealpath(IF is_absolute(readlink(Append(path, Head(rest))))
                                THEN <<>> ELSE path,
                                SplitSlash(readlink(Append(path, Head(rest))), <<>>),
                                active \cup {Append(path, Head(rest))}),
                   Tail(rest), active)

AfterLink(r, rest, active) ==
    IF r.ok THEN JoinRealpath(r.path, rest, active) ELSE Looped(r.path \o rest)

\* os.path.normpath of an absolute path: the empty and "." components go,
\* a ".." removes the component before it, symbolic link or not.
RECURSIVE NormPath(_, _)
NormPath(path, rest) ==
    IF rest = <<>> THEN path
    ELSE IF Head(rest) \in {<<>>, Dot} THEN NormPath(path, Tail(rest))
    ELSE IF Head(rest) = DotDot THEN NormPath(Parent(path), Tail(rest))
    ELSE NormPath(Append(path, Head(rest)), Tail(rest))

\* A resolve that follows every symbolic link and raises on every loop
\* (realpath in strict mode).
resolve_strict(parts) == JoinRealpath(<<>>, parts, {})

\* Path.resolve() once realpath has walked the path. After a loop realpath
\* returns abspath() of what it holds, the loop's link and the components
\* after it, not resolved; pathlib then calls stat() on that path and
\* raises RuntimeError if stat reports a loop, and returns the path if not.
ResolveWalked(r) ==
    IF r.ok THEN r
    ELSE IF JoinRealpath(<<>>, NormPath(<<>>, r.path), {}).ok
         THEN Walked(NormPath(<<>>, r.path))
    ELSE Looped(r.path)

\* Path.resolve(), strict=False
resolve(parts) == ResolveWalked(JoinRealpath(<<>>, parts, {}))

IsPrefix(a, b) == Len(a) <= Len(b) /\ SubSeq(b, 1, Len(a)) = a

PathUnset == [kind |-> "unset", path |-> <<>>]
PathNone == [kind |-> "None", path |-> <<>>]
PathRaised(e) == [kind |-> e, path |-> <<>>]
PathReturned(path) == [kind |-> "path", path |-> path]

\* A relative_to that takes a path for relative to the base only when it
\* lies strictly under it.
relative_to_strictly_under(cand, base_resolved) ==
    IF ~cand.ok \/ ~base_resolved.ok THEN PathRaised("RuntimeError")
    ELSE IF /\ IsPrefix(base_resolved.path, cand.path)
            /\ cand.path # base_resolved.path
         THEN PathReturned(cand.path)
    ELSE PathNone

\* try: resolved.relative_to(base_resolved); return resolved
\* except ValueError: return None
relative_to(cand, base_resolved) ==
    IF ~cand.ok \/ ~base_resolved.ok THEN PathRaised("RuntimeError")
    ELSE IF IsPrefix(base_resolved.path, cand.path) THEN PathReturned(cand.path)
    ELSE PathNone

\* The resolve function of the script before the storage package: it
\* refuses the empty string only, and pathlib raises ValueError on a NUL.
resolve_safe_path_legacy(base, user) ==
    IF user = <<>> THEN PathNone
    ELSE IF \E i \in DOMAIN user : user[i] = 0 THEN PathRaised("ValueError")
    ELSE relative_to(resolve(Candidate(base, user)), resolve(base))

\* storage._resolve_safe_path
_resolve_safe_path(base, user) ==
    IF user = <<>> \/ strip(user) = <<>> THEN PathNone
    ELSE IF \E i \in DOMAIN user : user[i] = 0 THEN PathNone
    ELSE relative_to(resolve(Candidate(base, user)), resolve(base))

\* save_todos.resolve_safe_path: the same statements
resolve_safe_path(base, user) ==
    IF user = <<>> \/ strip(user) = <<>> THEN PathNone
    ELSE IF \E i \in DOMAIN user : user[i] = 0 THEN PathNone
    ELSE relative_to(resolve(Candidate(base, user)), resolve(base))

\* The user paths tried: up to MaxSegs pieces joined by "/", a piece being
\* empty, ".", "..", a name of the file system, a blank or a NUL.
MaxSegs == 3
Segments ==
    {<<>>, Dot, DotDot, NameP, NameB, NameE, NameL, NameU, NameM, NameO, <<32>>, <<0>>}

RECURSIVE JoinSlash(_)
JoinSlash(segs) ==
    IF Len(segs) = 1 THEN segs[1]
    ELSE segs[1] \o <<Slash>> \o JoinSlash(Tail(segs))

UserPaths ==
    {JoinSlash(segs) : segs \in UNION {[1..n -> Segments] : n \in 1..MaxSegs}}

BaseDirs == {<<NameP>>, <<NameB>>}

_resolve_safe_path_call ==
    /\ resolved = PathUnset
    /\ resolved' = _resolve_safe_path(base_dir, user_path)
    /\ UNCHANGED <<callVars, jsonVars, sqlVars, queryVars, base_dir, user_path, selVars, mainVars>>

resolve_safe_path_call ==
    /\ resolved = PathUnset
    /\ resolved' = resolve_safe_path(base_dir, user_path)
    /\ UNCHANGED <<callVars, jsonVars, sqlVars, queryVars, base_dir, user_path, selVars, mainVars>>

\* ------------------------------------------------------ backend selector

\* str.lower(), for the ASCII letters.
lower(s) == [i \in DOMAIN s |-> IF s[i] >= 65 /\ s[i] <= 90 THEN s[i] + 32 ELSE s[i]]

TextJson == <<106, 115, 111, 110>>
TextSqlite == <<115, 113, 108, 105, 116, 101>>

\* An environment variable: unset, or set to a string.
EnvUnset == [set |-> FALSE, val |-> <<>>]
EnvSet(s) == [set |-> TRUE, val |-> s]

\* A lookup that gives the empty string for a variable that is not set,
\* whatever the default.
EnvGetNoDefault(name, default) == IF environ[name].set THEN environ[name].val ELSE <<>>

\* os.environ.get(name, default)
EnvGet(name, default) == IF environ[name].set THEN environ[name].val ELSE default

\* The settings of TODO_STORAGE_BACKEND tried: unset, the two names, their
\* spellings "JSON", " sqlite" + newline, "Json ", and the empty string, a
\* blank, "yaml", "jsonl", "sql", "json sqlite".
RecognizedSettings ==
    {EnvUnset, EnvSet(TextJson), EnvSet(TextSqlite),
     EnvSet(<<74, 83, 79, 78>>),
     EnvSet(<<32>> \o TextSqlite \o <<10>>),
     EnvSet(<<74, 115, 111, 110, 32>>)}
OtherSettings ==
    {EnvSet(<<>>), EnvSet(<<32>>),
     EnvSet(<<121, 97, 109, 108>>),
     EnvSet(TextJson \o <<108>>),
     EnvSet(<<115, 113, 108>>),
     EnvSet(TextJson \o <<32>> \o TextSqlite)}
BackendSettings == RecognizedSettings \cup OtherSettings

\* The settings of TODO_LOG_PATH and TODO_SQLITE_PATH tried: unset, the
\* link to a directory inside, the link to a directory outside, the loop,
\* a blank, and "o/../l", through the loop to the link outside.
PathSettings ==
    {EnvUnset, EnvSet(NameM), EnvSet(NameL), EnvSet(NameO), EnvSet(<<32>>),
     EnvSet(<<111, 47, 46, 46, 47, 108>>)}

TodosJson == <<116, 111, 100, 111, 115, 46, 106, 115, 111, 110>>
TodosDb == <<116, 111, 100, 111, 115, 46, 100, 98>>

NoBackend == [kind |-> "none", msg |-> "", path |-> <<>>]
BackendRaised(e, msg) == [kind |-> e, msg |-> msg, path |-> <<>>]
BackendAt(k, path) == [kind |-> k, msg |-> "", path |-> path]

\* _get_json_path and _get_sqlite_path once the custom path is read: the
\* path the backend is to use, or the exception raised.
GetPath(custom, default) ==
    IF custom = <<>> THEN PathReturned(base_dir \o <<DotClaude, default>>)
    ELSE IF _resolve_safe_path(base_dir, custom).kind = "None"
         THEN PathRaised("ValueError")
    ELSE _resolve_safe_path(base_dir, custom)

_get_json_path == GetPath(strip(EnvGet("TODO_LOG_PATH", <<>>)), TodosJson)
_get_sqlite_path == GetPath(strip(EnvGet("TODO_SQLITE_PATH", <<>>)), TodosDb)

\* The file system reads of a path resolution, none when the default path
\* is used or the custom path is refused before it is resolved.
PathIO(name) ==
    IF strip(EnvGet(name, <<>>)) = <<>>
       \/ \E i \in DOMAIN EnvGet(name, <<>>) : EnvGet(name, <<>>)[i] = 0
    THEN <<>> ELSE <<"readlink">>

\* A selector whose else branch falls back to the JSON backend.
SelectBranchDefaultJson(backend_type) ==
    IF backend_type = TextSqlite THEN "sqlite_path" ELSE "json_path"

\* if backend_type == "json": ... elif backend_type == "sqlite": ... else:
\* raise ValueError: the statement the selector goes to.
SelectBranch(backend_type) ==
    IF backend_type = TextJson THEN "json_path"
    ELSE IF backend_type = TextSqlite THEN "sqlite_path"
    ELSE "raise"

\* backend_type = os.environ.get("TODO_STORAGE_BACKEND", "json").strip().lower()
\* and the choice of the branch.
get_storage_backend_call ==
    /\ selPc = "start"
    /\ IF SelectBranch(lower(strip(EnvGet("TODO_STORAGE_BACKEND", TextJson)))) = "raise"
       THEN /\ backend' = BackendRaised("ValueError", "Unknown storage backend")
            /\ selPc' = "done"
       ELSE /\ selPc' = SelectBranch(lower(strip(EnvGet("TODO_STORAGE_BACKEND", TextJson))))
            /\ UNCHANGED backend
    /\ UNCHANGED <<callVars, jsonVars, sqlVars, queryVars, pathVars, environ, io, mainVars>>

\* log_file = _get_json_path(project_dir); return JSONStorageBackend(log_file):
\* the constructor keeps the path and touches nothing.
get_storage_backend_json ==
    /\ selPc = "json_path"
    /\ selPc' = "done"
    /\ io' = io \o PathIO("TODO_LOG_PATH")
    /\ backend' = IF _get_json_path.kind = "path"
                  THEN BackendAt("json", _get_json_path.path)
                  ELSE BackendRaised(_get_json_path.kind, "TODO_LOG_PATH")
    /\ UNCHANGED <<callVars, jsonVars, sqlVars, queryVars, pathVars, environ, mainVars>>

\* db_path = _get_sqlite_path(project_dir)
get_storage_backend_sqlite ==
    /\ selPc = "sqlite_path"
    /\ io' = io \o PathIO("TODO_SQLITE_PATH")
    /\ IF _get_sqlite_path.kind = "path"
       THEN /\ selPc' = "sqlite_init"
            /\ backend' = BackendAt("none", _get_sqlite_path.path)
       ELSE /\ selPc' = "done"
            /\ backend' = BackendRaised(_get_sqlite_path.kind, "TODO_SQLITE_PATH")
    /\ UNCHANGED <<callVars, jsonVars, sqlVars, queryVars, pathVars, environ, mainVars>>

\* return SQLiteStorageBackend(db_path): __init__ runs _ensure_schema, which
\* creates the directory, opens (creates) the database and runs the schema
\* script; each of them can fail.
SQLiteStorageBackend_init ==
    /\ selPc = "sqlite_init"
    /\ selPc' = "done"
    /\ \/ /\ io' = io \o <<"mkdir", "connect", "executescript">>
          /\ backend' = BackendAt("sqlite", backend.path)
       \/ /\ io' = io \o <<"mkdir">>
          /\ backend' = BackendRaised("OSError", "mkdir")
       \/ /\ io' = io \o <<"mkdir", "connect">>
          /\ backend' = BackendRaised("OperationalError", "connect")
    /\ UNCHANGED <<callVars, jsonVars, sqlVars, queryVars, pathVars, environ, mainVars>>

\* ------------------------------------------------------ save_todos.main

\* What json.load(sys.stdin) meets: text that is no JSON document, a JSON
\* array, or an object with these members. tool_input is "absent", "list"
\* (a value that is no object) or "dict"; todos is what tool_input holds
\* under "todos": a list of values, or a value that is no list.
HookInput(shape, tool_name, session_id, tool_input, todos) ==
    [shape |-> shape, tool_name |-> tool_name, session_id |-> session_id,
     cwd |-> Str(<<47, 119>>), tool_input |-> tool_input, todos |-> todos]

TodoList(items) == [list |-> TRUE, items |-> items]
NoList == [list |-> FALSE, items |-> <<>>]

TodoWrite(session_id, tool_input, todos) ==
    HookInput("dict", "TodoWrite", session_id, tool_input, todos)

\* The hook script is not running (status is -1 until main exits).
NoHook ==
    [pc |-> "none", input |-> HookInput("invalid", "", None, "absent", NoList),
     project_dir |-> "set", entry |-> EntryEmpty, status |-> -1]

\* The inputs tried: no JSON; an array; another tool's event; an event
\* without tool_name (written as the empty name: .get gives None, which is
\* not "TodoWrite" either); one good
\* item; no session id and a list that holds a good item, an item without
\* its content and a string; an item whose content is null; a tool_input
\* that is an array; no tool_input; todos that is no list; an item whose
\* content is nested too deeply to be written back.
HookInputs ==
    {HookInput("invalid", "", None, "absent", NoList),
     HookInput("list", "", None, "absent", NoList),
     HookInput("dict", "Read", Str(<<115, 49>>), "dict", TodoList(EntryOne.todos)),
     HookInput("dict", "", Str(<<115, 49>>), "dict", TodoList(EntryOne.todos)),
     TodoWrite(Str(<<115, 49>>), "dict", TodoList(EntryOne.todos)),
     TodoWrite(None, "dict",
               TodoList(EntryTwo.todos \o EntryNoKey.todos \o <<Str(<<97>>)>>)),
     TodoWrite(Str(<<115, 51>>), "dict", TodoList(EntryNull.todos)),
     TodoWrite(Str(<<115, 49>>), "list", NoList),
     TodoWrite(Str(<<>>), "absent", NoList),
     TodoWrite(Str(<<115, 49>>), "dict", NoList),
     TodoWrite(Str(<<115, 53>>), "dict", TodoList(EntryDeep.todos))}

\* CLAUDE_PROJECT_DIR: not set, set to the empty string, set to a directory.
ProjectDirs == {"unset", "empty", "set"}

\* A validate_todo that asks for the content key alone.
validate_todo_content_only(item) ==
    /\ ~IsScalar(item)
    /\ "content" \in DOMAIN item

\* validate_todo: a dict that has the three required keys, whatever else.
validate_todo(item) ==
    /\ ~IsScalar(item)
    /\ {"content", "status", "activeForm"} \subseteq DOMAIN item

\* validate_todos: [] for a value that is no list, else the valid items.
validate_todos(todos) ==
    IF ~todos.list THEN <<>> ELSE SelectSeq(todos.items, validate_todo)

\* validate_todos(raw_todos), called on the value of the input's todos.
validate_todos_call ==
    /\ hook.pc = "start"
    /\ hook' = [hook EXCEPT !.pc = "validated",
                            !.entry.todos = validate_todos(hook.input.todos)]
    /\ UNCHANGED <<callVars, jsonVars, sqlVars, queryVars, pathVars, selVars>>

\* UNKNOWN_VALUE
Unknown == Str(<<117, 110, 107, 110, 111, 119, 110>>)

\* A default that also replaces a string of whitespace alone.
OrUnknownIfBlank(v) ==
    IF v = None \/ (v.k = "str" /\ strip(v.s) = <<>>) THEN Unknown ELSE v

\* x or "unknown": None and the empty string are false.
OrUnknown(v) == IF v = None \/ v = Str(<<>>) THEN Unknown ELSE v

\* build_log_entry, for a tool_input that is an object or absent ({}).
build_log_entry(input) ==
    [timestamp |-> Str(<<116, 49>>),
     session_id |-> OrUnknown(input.session_id),
     cwd |-> OrUnknown(input.cwd),
     todos |-> IF input.tool_input = "dict" THEN validate_todos(input.todos) ELSE <<>>]

\* entry = build_log_entry(hook_input), called on its own.
build_log_entry_call ==
    /\ hook.pc = "start"
    /\ hook' = [hook EXCEPT !.pc = "built", !.entry = build_log_entry(hook.input)]
    /\ UNCHANGED <<callVars, jsonVars, sqlVars, queryVars, pathVars, selVars>>

\* sys.exit(status)
main_exit(status) == hook' = [hook EXCEPT !.pc = "exited", !.status = status]

\* A main that reads CLAUDE_PROJECT_DIR before it looks at the event.
main_read_hook_input_after_project_dir ==
    /\ hook.pc = "start"
    /\ IF hook.input.shape # "dict" THEN main_exit(1)
       ELSE IF hook.project_dir # "set" THEN main_exit(1)
       ELSE IF hook.input.tool_name # "TodoWrite" THEN main_exit(0)
       ELSE hook' = [hook EXCEPT !.pc = "project_dir"]
    /\ UNCHANGED <<callVars, jsonVars, sqlVars, queryVars, pathVars, selVars>>

\* hook_input = read_hook_input(): json.load raises JSONDecodeError on text
\* that is no JSON, .get raises AttributeError on a value that is no dict
\* (both handlers exit with 1); None for another tool's event, and main
\* exits with 0.
main_read_hook_input ==
    /\ hook.pc = "start"
    /\ IF hook.input.shape # "dict" THEN main_exit(1)
       ELSE IF hook.input.tool_name # "TodoWrite" THEN main_exit(0)
       ELSE hook' = [hook EXCEPT !.pc = "project_dir"]
    /\ UNCHANGED <<callVars, jsonVars, sqlVars, queryVars, pathVars, selVars>>

\* project_dir_str = os.environ.get("CLAUDE_PROJECT_DIR"); if not ...: exit 1
main_project_dir ==
    /\ hook.pc = "project_dir"
    /\ IF hook.project_dir # "set" THEN main_exit(1)
       ELSE hook' = [hook EXCEPT !.pc = "build"]
    /\ UNCHANGED <<callVars, jsonVars, sqlVars, queryVars, pathVars, selVars>>

\* entry = build_log_entry(hook_input), and the call of get_storage_backend
\* that follows it; tool_input.get raises AttributeError on a tool_input
\* that is no dict.
main_build_log_entry ==
    /\ hook.pc = "build"
    /\ IF hook.input.tool_input = "list"
       THEN main_exit(1) /\ UNCHANGED selPc
       ELSE /\ hook' = [hook EXCEPT !.pc = "select", !.entry = build_log_entry(hook.input)]
            /\ selPc' = "start"
    /\ UNCHANGED <<callVars, jsonVars, sqlVars, queryVars, pathVars, environ, backend, io>>

\* backend = get_storage_backend(project_dir) has returned or raised.
main_get_storage_backend ==
    /\ hook.pc = "select"
    /\ selPc = "done"
    /\ IF backend.kind \in {"json", "sqlite"}
       THEN hook' = [hook EXCEPT !.pc = "append"]
       ELSE main_exit(1)
    /\ UNCHANGED <<callVars, jsonVars, sqlVars, queryVars, pathVars, selVars>>

\* backend.append_entry(entry) is called.
main_append_entry ==
    /\ hook.pc = "append"
    /\ result[1] = "none"
    /\ backend.kind = kind
    /\ \/ JSON_append_entry_call(1, hook.entry)
       \/ SQLite_append_entry_call(1, hook.entry)

\* append_entry raised: one of the two handlers prints and exits with 1.
main_append_entry_raised ==
    /\ hook.pc = "append"
    /\ pc[1] = "idle"
    /\ result[1] \notin {"none", "running", "ok"}
    /\ main_exit(1)
    /\ UNCHANGED <<callVars, jsonVars, sqlVars, queryVars, pathVars, selVars>>

\* append_entry returned: print("Saved ...") and sys.exit(0); a print that
\* cannot write to stdout raises OSError inside the try block and the
\* handler exits with 1.
main_print ==
    /\ hook.pc = "append"
    /\ pc[1] = "idle"
    /\ result[1] = "ok"
    /\ \/ main_exit(0)
       \/ main_exit(1)
    /\ UNCHANGED <<callVars, jsonVars, sqlVars, queryVars, pathVars, selVars>>

\* -------------------------------------------------- whole calls

\* JSONStorageBackend.append_entry(e) on file f when no system call fails:
\* the exception raised ("none" if it returns) and the file left.
JSON_append_entry_dumped(f, e, hist) ==
    IF JsonDumpError(hist) # "none"
    THEN [err |-> JsonDumpError(hist), file |-> f]
    ELSE [err |-> "none", file |-> File(JsonDump(hist))]

JSON_append_entry_result(f, e) ==
    IF JSON_load_history(f).err # "none"
    THEN [err |-> JSON_load_history(f).err, file |-> f]
    ELSE JSON_append_entry_dumped(f, e, Append(JSON_load_history(f).val, e))

\* The loop over entry["todos"] from item i on, inside the transaction:
\* the sqlite3.Error or KeyError that stops it, and the rows so far.
RECURSIVE SQLite_InsertTodos(_, _, _, _)
SQLite_InsertTodos(work, eid, todos, i) ==
    IF i > Len(todos) THEN [err |-> "none", work |-> work]
    ELSE IF ~({"content", "status", "activeForm"} \subseteq DOMAIN todos[i])
    THEN [err |-> "KeyError", work |-> work]
    ELSE IF SQLite_InsertError(<<todos[i].content, todos[i].status,
                                 todos[i].activeForm>>) # "none"
    THEN [err |-> SQLite_InsertError(<<todos[i].content, todos[i].status,
                                       todos[i].activeForm>>),
          work |-> work]
    ELSE SQLite_InsertTodos(SQLite_InsertTodo(work, eid, todos[i]), eid, todos, i + 1)

\* The end of the transaction: commit, or the rollback to database d.
SQLite_append_entry_ended(d, r) ==
    IF r.err # "none" THEN [err |-> r.err, db |-> d] ELSE [err |-> "none", db |-> r.work]

\* SQLiteStorageBackend.append_entry(e) on database d when the database
\* is neither locked nor failing: the exception raised and the rows left.
SQLite_append_entry_result(d, e) ==
    IF SQLite_InsertError(<<e.timestamp, e.session_id, e.cwd>>) # "none"
    THEN [err |-> SQLite_InsertError(<<e.timestamp, e.session_id, e.cwd>>), db |-> d]
    ELSE SQLite_append_entry_ended(
             d, SQLite_InsertTodos(SQLite_InsertEntry(d, e), d.seqE + 1, e.todos, 1))

\* How a whole call ended, as the callers record it.
Outcome(err) == IF err = "none" THEN "ok" ELSE err

\* The same append_entry(e) made on a JSON backend (caller 1) and on a
\* SQLite backend (caller 2), both to the end.
Pair_append_entry(e) ==
    /\ calls < MaxCalls
    /\ calls' = calls + 1
    /\ pre' = [p \in Procs |-> StoreNow]
    /\ entry' = [p \in Procs |-> e]
    /\ dirExists' = TRUE
    /\ target' = JSON_append_entry_result(target, e).file
    /\ db' = SQLite_append_entry_result(db, e).db
    /\ result' = [p \in Procs |->
                    IF p = 1 THEN Outcome(JSON_append_entry_result(target, e).err)
                    ELSE Outcome(SQLite_append_entry_result(db, e).err)]
    /\ appended' = IF JSON_append_entry_result(target, e).err = "none"
                   THEN Append(appended, e) ELSE appended
    /\ loaded' = [p \in Procs |-> <<>>]
    /\ UNCHANGED <<kind, pc, exc, tmpFiles, history, tempPath>>
    /\ UNCHANGED <<lock, txn, conn, entryId, idx, queryVars, pathVars, selVars, mainVars>>

\* load_history on both backends.
Pair_load_history ==
    /\ JSON_load_history(target).err = "none"
    /\ result' = [p \in Procs |-> "loaded"]
    /\ loaded' = [p \in Procs |->
                    IF p = 1 THEN JSON_load_history(target).val
                    ELSE SQLite_load_history(db)]
    /\ pre' = [p \in Procs |-> StoreNow]
    /\ UNCHANGED <<kind, calls, pc, entry, exc, appended>>
    /\ UNCHANGED <<jsonVars, sqlVars, queryVars, pathVars, selVars, mainVars>>

\* ---------------------------------------------------------- specifications

InitCalls ==
    /\ calls = 0
    /\ pc = [p \in Procs |-> "idle"]
    /\ entry = [p \in Procs |-> EntryEmpty]
    /\ exc = [p \in Procs |-> "none"]
    /\ result = [p \in Procs |-> "none"]
    /\ loaded = [p \in Procs |-> <<>>]
    /\ appended = <<>>

InitJson ==
    /\ target \in InitialTargets
    /\ dirExists \in {target.exists, TRUE}
    /\ tmpFiles = <<>>
    /\ history = [p \in Procs |-> <<>>]
    /\ tempPath = [p \in Procs |-> 0]

\* SQLiteStorageBackend.__init__ has run: the schema exists, the tables are
\* empty.
InitSql ==
    /\ db = EmptyDb
    /\ lock = 0
    /\ txn = [p \in Procs |-> NoTxn]
    /\ conn = [p \in Procs |-> 0]
    /\ entryId = [p \in Procs |-> 0]
    /\ idx = [p \in Procs |-> 0]
    /\ query = [p \in Procs |-> NoQuery]

\* No path is being resolved.
IdlePath ==
    /\ base_dir = <<NameP>>
    /\ user_path = <<>>
    /\ resolved = PathUnset

NoEnviron ==
    [TODO_STORAGE_BACKEND |-> EnvUnset, TODO_LOG_PATH |-> EnvUnset,
     TODO_SQLITE_PATH |-> EnvUnset]

\* No backend is being selected.
IdleSelect ==
    /\ environ = NoEnviron
    /\ selPc = "start"
    /\ backend = NoBackend
    /\ io = <<>>
    /\ hook = NoHook

\* No backend is being called.
IdleStore ==
    /\ kind = "json"
    /\ InitCalls
    /\ target = Absent
    /\ dirExists = FALSE
    /\ tmpFiles = <<>>
    /\ history = [p \in Procs |-> <<>>]
    /\ tempPath = [p \in Procs |-> 0]
    /\ InitSql
    /\ pre = [p \in Procs |-> StoreNow]

InitStore(kinds) ==
    /\ kind \in kinds
    /\ InitCalls
    /\ InitJson
    /\ kind = "sqlite" => target = Absent /\ ~dirExists
    /\ InitSql
    /\ pre = [p \in Procs |-> StoreNow]
    /\ IdlePath
    /\ IdleSelect

\* One backend, JSON or SQLite, and one caller whose calls run one after
\* the other.
Init == InitStore({"json", "sqlite"})

Next == JSON_step(1) \/ SQLite_step(1) \/ Read_step(1)

Spec == Init /\ [][Next]_vars

\* Two callers of one JSON backend on a log file that does not exist yet,
\* their steps interleaved.
InitJsonConc == InitStore({"json"}) /\ target = Absent

NextJsonConc == \E p \in Procs : JSON_step(p)

SpecJsonConc == InitJsonConc /\ [][NextJsonConc]_vars

\* Two callers of one JSON backend on a log file that holds a history of
\* one entry, their steps interleaved.
InitJsonOnHistory ==
    /\ kind = "json"
    /\ InitCalls
    /\ target = File(JsonDump(<<EntryOne>>))
    /\ dirExists = TRUE
    /\ tmpFiles = <<>>
    /\ history = [p \in Procs |-> <<>>]
    /\ tempPath = [p \in Procs |-> 0]
    /\ InitSql
    /\ pre = [p \in Procs |-> StoreNow]
    /\ IdlePath
    /\ IdleSelect

SpecJsonOnHistory == InitJsonOnHistory /\ [][NextJsonConc]_vars

\* Two callers of one SQLite backend, each with its own connection, their
\* steps interleaved.
InitSqlConc == InitStore({"sqlite"})

NextSqlConc == \E p \in Procs : SQLite_step(p)

SpecSqlConc == InitSqlConc /\ [][NextSqlConc]_vars

\* The resolve functions applied to every user path and base directory.
InitPath ==
    /\ IdleStore
    /\ base_dir \in BaseDirs
    /\ user_path \in UserPaths
    /\ resolved = PathUnset
    /\ IdleSelect

NextPath == _resolve_safe_path_call \/ resolve_safe_path_call

SpecPath == InitPath /\ [][NextPath]_vars

\* get_storage_backend under every setting of the environment.
InitSelect ==
    /\ IdleStore
    /\ base_dir \in BaseDirs
    /\ user_path = <<>>
    /\ resolved = PathUnset
    /\ environ \in [TODO_STORAGE_BACKEND : BackendSettings,
                     TODO_LOG_PATH : PathSettings,
                     TODO_SQLITE_PATH : PathSettings]
    /\ selPc = "start"
    /\ backend = NoBackend
    /\ io = <<>>
    /\ hook = NoHook

NextSelect ==
    \/ get_storage_backend_call
    \/ get_storage_backend_json
    \/ get_storage_backend_sqlite
    \/ SQLiteStorageBackend_init

SpecSelect == InitSelect /\ [][NextSelect]_vars

\* One run of the hook script on a store that is there: the input, the
\* environment and the store are any of those listed, the store being of
\* the kind that TODO_STORAGE_BACKEND names.
MainEnvirons ==
    [TODO_STORAGE_BACKEND : {EnvUnset, EnvSet(TextSqlite), EnvSet(<<121, 97, 109, 108>>)},
     TODO_LOG_PATH : {EnvUnset, EnvSet(NameL), EnvSet(<<111, 47, 46, 46, 47, 108>>)},
     TODO_SQLITE_PATH : {EnvUnset, EnvSet(NameL)}]

InitMain ==
    /\ environ \in MainEnvirons
    /\ kind = IF lower(strip(EnvGet("TODO_STORAGE_BACKEND", TextJson))) = TextSqlite
              THEN "sqlite" ELSE "json"
    /\ InitCalls
    /\ InitJson
    /\ kind = "sqlite" => target = Absent /\ ~dirExists
    /\ db \in {EmptyDb, SQLite_append_entry_result(EmptyDb, EntryOne).db}
    /\ lock = 0
    /\ txn = [p \in Procs |-> NoTxn]
    /\ conn = [p \in Procs |-> 0]
    /\ entryId = [p \in Procs |-> 0]
    /\ idx = [p \in Procs |-> 0]
    /\ query = [p \in Procs |-> NoQuery]
    /\ pre = [p \in Procs |-> StoreNow]
    /\ IdlePath
    /\ selPc = "idle"
    /\ backend = NoBackend
    /\ io = <<>>
    /\ hook \in {[pc |-> "start", input |-> i, project_dir |-> d,
                   entry |-> EntryEmpty, status |-> -1] :
                     i \in HookInputs, d \in ProjectDirs}

NextMain ==
    \/ main_read_hook_input
    \/ main_project_dir
    \/ main_build_log_entry
    \/ get_storage_backend_call
    \/ get_storage_backend_json
    \/ get_storage_backend_sqlite
    \/ SQLiteStorageBackend_init
    \/ main_get_storage_backend
    \/ main_append_entry
    \/ JSON_append_entry_mkdir(1)
    \/ JSON_append_entry_load(1)
    \/ JSON_append_entry_mkstemp(1)
    \/ JSON_append_entry_write(1)
    \/ JSON_append_entry_replace(1)
    \/ JSON_append_entry_cleanup(1)
    \/ SQLite_append_entry_connect(1)
    \/ SQLite_append_entry_insert_entry(1)
    \/ SQLite_append_entry_insert_todo(1)
    \/ SQLite_append_entry_commit(1)
    \/ SQLite_append_entry_rollback(1)
    \/ SQLite_append_entry_close(1)
    \/ main_append_entry_raised
    \/ main_print

SpecMain == InitMain /\ [][NextMain]_vars

\* The same with the script's statements run one after the other until it
\* exits: no statement of main or of the backends waits for anything.
\* Weak fairness of every statement. The two path statements of the
\* selector and the load statement of append_entry are each enabled exactly
\* when the program is at them, and their weak fairness is stated so: the
\* program is not at them for ever.
MainFairness ==
    /\ WF_vars(main_read_hook_input)
    /\ WF_vars(main_project_dir)
    /\ WF_vars(main_build_log_entry)
    /\ WF_vars(get_storage_backend_call)
    /\ []<>(selPc # "json_path")
    /\ []<>(selPc # "sqlite_path")
    /\ WF_vars(SQLiteStorageBackend_init)
    /\ WF_vars(main_get_storage_backend)
    /\ WF_vars(main_append_entry)
    /\ WF_vars(JSON_append_entry_mkdir(1))
    /\ []<>(pc[1] # "load")
    /\ WF_vars(JSON_append_entry_mkstemp(1))
    /\ WF_vars(JSON_append_entry_write(1))
    /\ WF_vars(JSON_append_entry_replace(1))
    /\ WF_vars(JSON_append_entry_cleanup(1))
    /\ WF_vars(SQLite_append_entry_connect(1))
    /\ WF_vars(SQLite_append_entry_insert_entry(1))
    /\ WF_vars(SQLite_append_entry_insert_todo(1))
    /\ WF_vars(SQLite_append_entry_commit(1))
    /\ WF_vars(SQLite_append_entry_rollback(1))
    /\ WF_vars(SQLite_append_entry_close(1))
    /\ WF_vars(main_append_entry_raised)
    /\ WF_vars(main_print)

SpecMainLive == SpecMain /\ MainFairness

\* A fresh JSON backend and a fresh SQLite backend given the same calls.
InitPair == IdleStore /\ IdlePath /\ IdleSelect

NextPair == (\E e \in Entries : Pair_append_entry(e)) \/ Pair_load_history

SpecPair == InitPair /\ [][NextPair]_vars

\* The same, the entries given carrying timestamps that go up, stay or go
\* down from one call to the next.
Timestamps == {Str(<<116, 48>>), Str(<<116, 49>>), Str(<<116, 50>>)}

Stamped(e, ts) == [e EXCEPT !.timestamp = ts]

StampedEntries == {Stamped(e, ts) : e \in WellFormedEntries, ts \in Timestamps}

NextStamped == (\E e \in StampedEntries : Pair_append_entry(e)) \/ Pair_load_history

SpecStamped == InitPair /\ [][NextStamped]_vars

\* validate_todos applied to every value of todos: a list of up to
\* MaxItems values, each a good item, an item with a key more, an item
\* whose content is null, an item without its content, an item of the
\* content alone, a string, None or a number; or a value that is no list
\* (None, and a dict and a tuple that hold items).
MaxItems == 2

ItemKinds ==
    {EntryOne.todos[1], EntryExtra.todos[1], EntryNull.todos[2], EntryNoKey.todos[2],
     [content |-> Str(<<97>>)], Str(<<99, 111, 110, 116, 101, 110, 116>>), None,
     PyInt(5)}

TodosValues ==
    {TodoList(items) : items \in UNION {[1..n -> ItemKinds] : n \in 0..MaxItems}}
    \cup {NoList,
          [list |-> FALSE, items |-> EntryOne.todos],
          [list |-> FALSE, items |-> EntryTwo.todos]}

InitValidate ==
    /\ IdleStore
    /\ IdlePath
    /\ environ = NoEnviron
    /\ selPc = "idle"
    /\ backend = NoBackend
    /\ io = <<>>
    /\ hook \in {[pc |-> "start", input |-> TodoWrite(Str(<<115, 49>>), "dict", t),
                   project_dir |-> "set", entry |-> EntryEmpty, status |-> -1] :
                  t \in TodosValues}

NextValidate == validate_todos_call

SpecValidate == InitValidate /\ [][NextValidate]_vars

\* build_log_entry applied to events whose session_id is absent (or
\* null), empty, a blank, a name or the word "unknown" itself, and whose
\* cwd is absent, empty or a directory; the
\* two backends are then given the entry built, or that entry with its
\* session_id and cwd emptied.
FieldValues == {None, Str(<<>>), Str(<<32>>), Str(<<115, 49>>), Unknown}

BuildInputs ==
    {[TodoWrite(sid, "dict", TodoList(<<>>)) EXCEPT !.cwd = c] :
        sid \in FieldValues, c \in {None, Str(<<>>), Str(<<47, 119>>)}}

GivenEntries(e) == {e, [e EXCEPT !.session_id = Str(<<>>), !.cwd = Str(<<>>)]}

InitBuild ==
    /\ IdleStore
    /\ IdlePath
    /\ environ = NoEnviron
    /\ selPc = "idle"
    /\ backend = NoBackend
    /\ io = <<>>
    /\ hook \in {[pc |-> "start", input |-> i, project_dir |-> "set",
                   entry |-> EntryEmpty, status |-> -1] : i \in BuildInputs}

NextBuild ==
    \/ build_log_entry_call
    \/ hook.pc = "built" /\ \E e \in GivenEntries(hook.entry) : Pair_append_entry(e)
    \/ hook.pc = "built" /\ Pair_load_history

SpecBuild == InitBuild /\ [][NextBuild]_vars

\* ------------------------------------------- sequential calls: properties

\* What load_history returns on a store, and whether it returns at all.
LoadOf(store) ==
    IF kind = "json" THEN JSON_load_history(store.file)
    ELSE Returned(SQLite_load_history(store.db))

Failures ==
    {"OSError", "TypeError", "ValueError", "RecursionError", "UnicodeDecodeError",
     "OperationalError", "IntegrityError", "ProgrammingError", "KeyError"}

\* The entries either backend hands back as it was given them: the JSON
\* file keeps every value json can write, the tables keep the well-formed
\* entries (three text fields, items of three text fields).
KeptAsGiven(e) == kind = "json" \/ e \in WellFormedEntries

\* C1: for both backends, once an append_entry of the single caller has
\* returned, load_history returns what it returned before that call with
\* the entry appended at the end; and on a store that started empty or
\* absent it returns exactly the entries appended so far, items included,
\* in append order.
C1_AppendThenLoad ==
    (pc[1] = "idle" /\ \A i \in DOMAIN appended : KeptAsGiven(appended[i]))
    => /\ result[1] = "ok"
          => /\ LoadOf(StoreNow).err = "none"
             /\ LoadOf(pre[1]).err = "none"
             /\ LoadOf(StoreNow).val
                  = Append(LoadOf(pre[1]).val, appended[Len(appended)])
       /\ LoadOf(StoreNow).err = "none" => LoadOf(StoreNow).val = appended

\* Two appends have returned, the second of an entry with two items, and
\* the store loads as those entries; the backend is the database.
C1_Witness ==
    /\ kind = "sqlite"
    /\ pc[1] = "idle"
    /\ result[1] = "ok"
    /\ Len(appended) = 2
    /\ appended[2] = EntryTwo
    /\ LoadOf(StoreNow).val = appended

\* C2: when os.replace fails, append_entry goes to the clean-up with the
\* OSError in flight and the target is what it was when the call began;
\* the clean-up then raises that error and leaves the target as it was.
C2_ReplaceFailureKeepsTarget ==
    [][/\ (pc[1] = "replace" /\ pc'[1] # "replace" /\ result'[1] # "ok")
          => (pc'[1] = "cleanup" /\ exc'[1] = "OSError" /\ target' = pre[1].file)
       /\ (pc[1] = "cleanup" /\ pc'[1] # "cleanup")
          => /\ pc'[1] = "idle"
             /\ exc[1] \in Failures
             /\ result'[1] = exc[1]
             /\ target' = pre[1].file]_vars

\* os.replace has failed (the temporary file holds the whole new history)
\* on a target that held a valid history of one entry.
C2_Witness ==
    /\ kind = "json"
    /\ pc[1] = "cleanup"
    /\ exc[1] = "OSError"
    /\ tmpFiles[tempPath[1]] = JsonDump(history[1])
    /\ target.exists
    /\ Len(JSON_load_history(target).val) = 1

\* C3: while an append_entry of the JSON backend runs, the target holds
\* what it held when the call began; the only step that changes the
\* target is the rename, and it leaves the complete serialisation of the
\* loaded history with the new entry appended.
C3_TargetOldOrComplete ==
    [][/\ (kind = "json" /\ pc[1] # "idle") => target = pre[1].file
       /\ target' # target
          => /\ pc[1] = "replace"
             /\ target'
                  = File(JsonDump(Append(JSON_load_history(pre[1].file).val, entry[1])))]_vars

\* The serialisation has failed half way: the temporary file holds a part
\* of the new history while the target still holds the old one.
C3_Witness ==
    /\ kind = "json"
    /\ pc[1] = "cleanup"
    /\ Len(history[1]) = 2
    /\ tmpFiles[tempPath[1]] = JsonDumpPartial(history[1])
    /\ target = File(JsonDump(<<history[1][1]>>))

\* C4: an append_entry that has created its temporary file and then fails
\* leaves through the clean-up, which unlinks the temporary file, and
\* raises the error that made it fail.
C4_FailureGoesThroughCleanup ==
    [][(pc[1] \in {"write", "replace", "cleanup"} /\ pc'[1] = "idle"
        /\ result'[1] # "ok")
       => (pc[1] = "cleanup" /\ result'[1] = exc[1])]_vars

\* C4 as a state property: a call that has failed leaves no temporary
\* file behind unless an unlink failed.
C4_NoTempLeftByRecursionError ==
    (pc[1] = "idle" /\ result[1] = "RecursionError") => tmpFiles = <<>>

\* C5: when append_entry of the SQLite backend has raised, the entry rows
\* and the item rows of the database are the ones from before the call,
\* and no item row is left without its entry row.
C5_FailedAppendLeavesRows ==
    /\ (kind = "sqlite" /\ pc[1] = "idle" /\ result[1] \in Failures)
       => (db.entries = pre[1].db.entries /\ db.todos = pre[1].db.todos)
    /\ pc[1] = "idle"
       => \A t \in db.todos : \E e \in db.entries : e.id = t.entry_id

\* An append has failed on the NULL content of its second item, after its
\* entry row and its first item row were inserted, on a database that
\* holds an earlier entry.
C5_Witness ==
    /\ kind = "sqlite"
    /\ pc[1] = "idle"
    /\ result[1] = "IntegrityError"
    /\ Cardinality(db.entries) = 1
    /\ Cardinality(db.todos) = 2

\* ------------------------------------------- concurrent calls: properties

\* C6: the target changes only by a caller's successful rename, and it
\* becomes the history that caller loaded with its own entry at the end,
\* whatever another caller has renamed onto the target since that load:
\* the file ends with the entry of the caller whose rename ran last (last
\* writer wins), and an entry renamed in between is gone.
C6_LastWriterWins ==
    [][target' # target
       => \E p \in Procs :
            /\ pc[p] = "replace"
            /\ pc'[p] = "idle"
            /\ result'[p] = "ok"
            /\ target' = File(JsonDump(history[p]))
            /\ history[p][Len(history[p])] = entry[p]
            /\ appended' = Append(appended, entry[p])]_vars

\* Both callers' appends have returned, of different entries, and the file
\* holds only the entry of the one that returned last.
C6_Witness ==
    /\ pc[1] = "idle"
    /\ pc[2] = "idle"
    /\ result[1] = "ok"
    /\ result[2] = "ok"
    /\ Len(appended) = 2
    /\ appended[1] # appended[2]
    /\ JSON_load_history(target).val = <<appended[2]>>

\* The item rows of one entry have ids next to each other.
Contiguous(todos) ==
    \A t1, t2, t3 \in todos :
        (t1.entry_id = t2.entry_id /\ t1.id < t3.id /\ t3.id < t2.id)
        => t3.entry_id = t1.entry_id

\* Every entry of the history h has all the items of the entry that was
\* given to append_entry.
Whole(h) ==
    \A i \in DOMAIN h :
        \E g \in Entries :
            g.session_id = h[i].session_id /\ Len(g.todos) = Len(h[i].todos)

\* C7: the write transactions of the SQLite backend are serialised by the
\* lock taken when the transaction begins: a caller inserts only while it
\* holds the lock, at most one transaction is open, the item rows of an
\* entry are not interleaved with another entry's, and what load_history
\* returns, at any moment, holds whole entries only.
C7_WritesSerialized ==
    /\ \A p, q \in Procs : (txn[p].active /\ txn[q].active) => p = q
    /\ \A p \in Procs : txn[p].active => lock = p
    /\ \A p \in Procs : pc[p] \in {"insert_todo", "commit"} => txn[p].active
    /\ Contiguous(db.todos)
    /\ Whole(SQLite_load_history(db))
    /\ \A p \in Procs : Whole(loaded[p])

\* Caller 1 is in the middle of its inserts while caller 2's insert has
\* failed on the busy database.
C7_Witness ==
    /\ pc[1] = "insert_todo"
    /\ idx[1] = 2
    /\ txn[1].active
    /\ pc[2] = "rollback"
    /\ exc[2] = "OperationalError"
    /\ ~txn[2].active

\* ---------------------------------------------- path sandbox: properties

\* A canonical path: no empty, "." or ".." component, and no symbolic link
\* on the way.
IsCanonical(path) ==
    /\ \A i \in DOMAIN path : path[i] \notin {<<>>, Dot, DotDot}
    /\ \A n \in 1..Len(path) : ~islink(SubSeq(path, 1, n))

\* The first place of a path where a ".." stands or a symbolic link ends,
\* 0 if the path is canonical.
FirstReducible(path) ==
    IF IsCanonical(path) THEN 0
    ELSE CHOOSE i \in DOMAIN path :
            /\ path[i] = DotDot \/ islink(SubSeq(path, 1, i))
            /\ \A j \in 1..(i - 1) :
                   path[j] # DotDot /\ ~islink(SubSeq(path, 1, j))

\* One rewriting at place i: a ".." removes the component before it, a
\* symbolic link is replaced by its target.
Reduce(path, i) ==
    IF path[i] = DotDot
    THEN SubSeq(path, 1, i - 2) \o SubSeq(path, i + 1, Len(path))
    ELSE (IF is_absolute(readlink(SubSeq(path, 1, i)))
          THEN <<>> ELSE SubSeq(path, 1, i - 1))
         \o PathParts(readlink(SubSeq(path, 1, i)))
         \o SubSeq(path, i + 1, Len(path))

\* The canonical path of a path, by rewriting from the left until nothing
\* is left to rewrite; <<DotDot>> stands for "none" (a loop).
RECURSIVE Canonical(_, _)
Canonical(path, fuel) ==
    IF FirstReducible(path) = 0 THEN path
    ELSE IF fuel = 0 THEN <<DotDot>>
    ELSE Canonical(Reduce(path, FirstReducible(path)), fuel - 1)

CanonicalOf(path) == Canonical(path, 3 * Len(path) + 3)

\* C8: when a resolve function returns a path, the place that path leads
\* to, every symbolic link followed, is the canonical base directory or
\* lies under it.
C8_ReturnedPathInsideBase ==
    resolved.kind = "path"
    => IsPrefix(CanonicalOf(base_dir), CanonicalOf(resolved.path))

\* C8 where no symbolic-link loop is met on the way: the returned path is
\* the canonical path of the candidate (the user path, joined to the base
\* directory unless absolute) and the canonical base directory is a prefix
\* of it, component by component.
C8_InsideBaseWithoutLoop ==
    (resolved.kind = "path" /\ resolve_strict(Candidate(base_dir, user_path)).ok)
    => /\ IsCanonical(resolved.path)
       /\ resolved.path = CanonicalOf(Candidate(base_dir, user_path))
       /\ IsPrefix(CanonicalOf(base_dir), resolved.path)

\* The user path "l/../p", through the link to the outside directory and
\* back, has been resolved to a path, the base directory being a link.
C8_WitnessWithoutLoop ==
    /\ resolved.kind = "path"
    /\ base_dir = <<NameB>>
    /\ user_path = <<108, 47, 46, 46, 47, 112>>

\* C9: a user path that is empty, has only whitespace in it or has a NUL
\* in it makes the resolve functions return None; they do not raise.
C9_RejectsEmptyBlankNul ==
    (/\ resolved # PathUnset
     /\ \/ user_path = <<>>
        \/ \A i \in DOMAIN user_path : IsSpace(user_path[i])
        \/ \E i \in DOMAIN user_path : user_path[i] = 0)
    => resolved = PathNone

\* The user path "o/" + NUL, a symbolic-link loop before the NUL, has
\* been refused.
C9_Witness ==
    /\ resolved = PathNone
    /\ user_path = <<111, 47, 0>>

\* The directories a walk passes that starts in the directory path and
\* takes the components of rest one after the other, ".." read as the
\* parent directory.
RECURSIVE Passed(_, _)
Passed(path, rest) ==
    IF rest = <<>> THEN {path}
    ELSE {path} \cup Passed(IF Head(rest) = DotDot THEN Parent(path)
                            ELSE Append(path, Head(rest)),
                            Tail(rest))

\* The user path is one the resolve functions do not refuse for its form
\* (not empty, not blank, no NUL), it is relative, no component of it is a
\* symbolic link, and its ".." components never lead above the base
\* directory.
PlainRelative(base, user) ==
    /\ user # <<>>
    /\ \E i \in DOMAIN user : ~IsSpace(user[i])
    /\ \A i \in DOMAIN user : user[i] # 0
    /\ ~is_absolute(user)
    /\ \A d \in Passed(CanonicalOf(base), PathParts(user)) :
          /\ IsPrefix(CanonicalOf(base), d)
          /\ d = CanonicalOf(base) \/ ~islink(d)

\* C29: a relative user path that has no symbolic link in it and whose
\* ".." components never climb above the base directory is accepted by
\* the resolve functions, whether it exists or not: the path returned is
\* the canonical base directory followed by the components of the user
\* path, "." dropped and ".." taken, so it is the canonical base directory
\* for "." and lies under it in every case.
C29_PlainRelativePathAccepted ==
    (resolved # PathUnset /\ PlainRelative(base_dir, user_path))
    => /\ resolved = PathReturned(NormPath(CanonicalOf(base_dir),
                                           PathParts(user_path)))
       /\ IsPrefix(CanonicalOf(base_dir), resolved.path)
       /\ PathParts(user_path) = <<>> => resolved.path = CanonicalOf(base_dir)

\* The user path "." has been resolved, the base directory being a link.
C29_Witness ==
    /\ resolved.kind = "path"
    /\ base_dir = <<NameB>>
    /\ user_path = Dot
    /\ PlainRelative(base_dir, user_path)

\* -------------------------------------------- backend selector: properties

TookJsonBranch == backend.kind = "json" \/ backend.msg = "TODO_LOG_PATH"

SelectedPathName ==
    IF lower(strip(EnvGet("TODO_STORAGE_BACKEND", TextJson))) = TextSqlite
    THEN "TODO_SQLITE_PATH" ELSE "TODO_LOG_PATH"
CustomPath == strip(EnvGet(SelectedPathName, <<>>))

\* A backend is selected and the path configured for it is resolved to a
\* place, every symbolic link followed, that is not under the canonical
\* project directory.
ResolvesOutside ==
    /\ environ.TODO_STORAGE_BACKEND \in RecognizedSettings
    /\ CustomPath # <<>>
    /\ \A i \in DOMAIN CustomPath : CustomPath[i] # 0
    /\ resolve(Candidate(base_dir, CustomPath)).ok
    /\ CanonicalOf(resolve(Candidate(base_dir, CustomPath)).path) # <<DotDot>>
    /\ ~IsPrefix(CanonicalOf(base_dir),
                 CanonicalOf(resolve(Candidate(base_dir, CustomPath)).path))

\* No directory was made, no database opened or written.
NoStorageIO == \A i \in DOMAIN io : io[i] \notin {"mkdir", "connect", "executescript"}

\* C12: when the path configured for the selected backend resolves outside
\* the project directory, get_storage_backend builds no backend, makes no
\* directory, opens no database, and ends raising ValueError for that
\* path variable.
C12_OutsidePathRaisesBeforeIO ==
    ResolvesOutside
    => /\ NoStorageIO
       /\ selPc # "sqlite_init"
       /\ selPc = "done" => backend = BackendRaised("ValueError", SelectedPathName)

\* C12 where no symbolic-link loop is met while the configured path is
\* resolved.
C12_OutsidePathRaisesWithoutLoop ==
    (ResolvesOutside /\ resolve_strict(Candidate(base_dir, CustomPath)).ok)
    => /\ NoStorageIO
       /\ selPc # "sqlite_init"
       /\ selPc = "done" => backend = BackendRaised("ValueError", SelectedPathName)

\* get_storage_backend has raised for TODO_SQLITE_PATH set to the link to
\* the outside directory, the SQLite backend being selected.
C12_WitnessWithoutLoop ==
    /\ selPc = "done"
    /\ ResolvesOutside
    /\ environ.TODO_SQLITE_PATH = EnvSet(NameL)
    /\ backend = BackendRaised("ValueError", "TODO_SQLITE_PATH")

\* ----------------------------------------- JSON history file: properties

\* A whole call of load_history is made in this step: a call is counted
\* and no caller is inside append_entry before or after it.
LoadStep == pc' = pc /\ calls' = calls + 1

\* The bytes of file f are a JSON document whose top level is an array.
ParsesAsArray(f) ==
    /\ f.exists
    /\ f.readable
    /\ JsonLoad(f.data).err = "none"
    /\ JsonLoad(f.data).kind = "list"

\* What C13 lets load_history return on file f.
ArrayOrEmpty(f) == IF ParsesAsArray(f) THEN JsonLoad(f.data).val ELSE <<>>

\* C13: in every state of the file (absent, empty, malformed, an object at
\* the top level, bytes that are not UTF-8, unreadable, a history) a call
\* of JSONStorageBackend.load_history returns, and returns the array the
\* file holds, or the empty list if it holds none.
C13_LoadNeverRaises ==
    [][(kind = "json" /\ LoadStep)
       => \E p \in Procs :
            /\ pc[p] = "idle"
            /\ result'[p] = "loaded"
            /\ loaded'[p] = ArrayOrEmpty(target)]_vars

\* C13 for the files whose bytes are UTF-8.
C13_LoadReturnsWhenDecodable ==
    [][(kind = "json" /\ LoadStep /\ JsonLoad(target.data).err # "UnicodeDecodeError")
       => \E p \in Procs :
            /\ pc[p] = "idle"
            /\ result'[p] = "loaded"
            /\ loaded'[p] = ArrayOrEmpty(target)]_vars

\* load_history has returned the empty list on the file that holds "{}".
C13_WitnessObject ==
    /\ kind = "json"
    /\ result[1] = "loaded"
    /\ loaded[1] = <<>>
    /\ target = File(<< <<123>>, <<125>> >>)

\* A file that is there and can be read but holds no JSON array.
Corrupted(f) == f.exists /\ f.readable /\ ~ParsesAsArray(f)

\* C14: the file changes only when an append_entry returns. When the file
\* was corrupted (there, readable, no JSON array) the file it leaves is
\* the serialisation of the one-entry history of the appended entry and
\* loads as that; and whatever the file held before the first append that
\* returned, after every later one it loads as the entries appended so
\* far, so every later append and load finds a valid history.
C14_CorruptedFileStartsFresh ==
    [][(kind = "json" /\ target' # target)
       => /\ appended' # appended
          /\ JSON_load_history(target') = Returned(appended')
          /\ Corrupted(target)
             => /\ appended' = <<appended'[1]>>
                /\ target' = File(JsonDump(appended'))]_vars

\* An append of the entry with two items has returned on the file that
\* held "{corrupted".
C14_Witness ==
    /\ kind = "json"
    /\ pc[1] = "idle"
    /\ result[1] = "ok"
    /\ pre[1].file
         = File(<< <<123>>, <<99, 111, 114, 114, 117, 112, 116, 101, 100>> >>)
    /\ target = File(JsonDump(<<EntryTwo>>))

\* ------------------------------------------------ append-only: properties

\* What load_history returns on the store of the next state.
LoadOfNext ==
    IF kind = "json" THEN JSON_load_history(target')
    ELSE Returned(SQLite_load_history(db'))

OfSession(entries, sid) == SelectSeq(entries, LAMBDA e : e.session_id = sid)

RECURSIVE ItemsOfStatus(_, _)
ItemsOfStatus(entries, st) ==
    IF entries = <<>> THEN <<>>
    ELSE SelectSeq(Head(entries).todos, LAMBDA t : t.status = st)
         \o ItemsOfStatus(Tail(entries), st)

\* C17: a get_todos_by_status(s) that returns gives the items of status s
\* of all entries in the order the items were inserted, which is the
\* concatenation, entry after entry of load_history(), of each entry's
\* items of status s; when the appended entries are well formed these are
\* the items of status s of the appended entries.
C17_TodosByStatus ==
    (kind = "sqlite" /\ result[1] = "queried" /\ query[1].op = "status")
    => /\ query[1].rows = ItemsOfStatus(SQLite_load_history(db), query[1].arg)
       /\ (\A i \in DOMAIN appended : appended[i] \in WellFormedEntries)
          => query[1].rows = ItemsOfStatus(appended, query[1].arg)

\* The entry with two items (one of them pending) and the entry with one
\* pending item were appended, and the query for the pending items has
\* returned the two pending ones, the older first.
C17_Witness ==
    /\ kind = "sqlite"
    /\ result[1] = "queried"
    /\ appended = <<EntryTwo, EntryOne>>
    /\ query[1] = Queried("status", Pending, <<EntryTwo.todos[2], EntryOne.todos[1]>>)

\* ------------------------------------------- entries without items

\* The entries without items among es are at their places in the loaded
\* list, with todos the empty list, as the entries they were.
EmptyTodosLoaded(load, es) ==
    load.err = "none"
    => \A i \in DOMAIN es :
          es[i].todos = <<>>
          => /\ i <= Len(load.val)
             /\ load.val[i].todos = <<>>
             /\ load.val[i] = es[i]

\* C18: for both backends, after every step that changes the store or
\* ends an append_entry, every appended entry that has no items is loaded
\* at its place with todos the empty list, whatever the entries around
\* it. (The store loads the same until the next such step.)
C18_EmptyTodosStayEmpty ==
    [][((StoreNow' # StoreNow \/ appended' # appended)
        /\ \E i \in DOMAIN appended' : appended'[i].todos = <<>>)
       => EmptyTodosLoaded(LoadOfNext, appended')]_vars

\* The database holds the entry with two items and, after it, the entry
\* without items, and loads as the two.
C18_Witness ==
    /\ kind = "sqlite"
    /\ pc[1] = "idle"
    /\ appended = <<EntryTwo, EntryEmpty>>
    /\ Len(SQLite_load_history(db)) = 2
    /\ SQLite_load_history(db)[2].todos = <<>>

\* ------------------------------------------------ load_history: grouping

\* How many rows of a table have an id smaller than that of row r.
RowsBefore(rows, r) == Cardinality({q \in rows : q.id < r.id})

\* The item rows of database d that reference the entry row e.
ItemRowsOf(d, e) == {t \in d.todos : t.entry_id = e.id}

\* The list h has one entry for each entry row of database d, at the place
\* the row's id has among the ids, and the items of that entry are the
\* item rows that reference the row, each at the place its id has among
\* theirs.
GroupedInIdOrder(d, h) ==
    /\ Len(h) = Cardinality(d.entries)
    /\ \A e \in d.entries :
          LET i == RowsBefore(d.entries, e) + 1 IN
          /\ h[i].timestamp = e.timestamp
          /\ h[i].session_id = e.session_id
          /\ h[i].cwd = e.cwd
          /\ Len(h[i].todos) = Cardinality(ItemRowsOf(d, e))
          /\ \A t \in ItemRowsOf(d, e) :
                h[i].todos[RowsBefore(ItemRowsOf(d, e), t) + 1]
                  = Todo(t.content, t.status, t.active_form)

\* The items of list h's i-th entry are the items the i-th append_entry
\* that returned was given, in the order given, their values as the TEXT
\* columns hold them.
ItemsAsGiven(h) ==
    \A i \in DOMAIN appended :
       /\ Len(h[i].todos) = Len(appended[i].todos)
       /\ \A k \in DOMAIN appended[i].todos :
             h[i].todos[k] = Todo(SQLite_StoreText(appended[i].todos[k].content),
                                 SQLite_StoreText(appended[i].todos[k].status),
                                 SQLite_StoreText(appended[i].todos[k].activeForm))

\* C30: what SQLiteStorageBackend.load_history makes of the committed
\* rows has every persisted entry once, however many item rows it has,
\* the entries by ascending entry id and each entry's items by ascending
\* item id, which is the order the items were given to append_entry in;
\* and a load_history call that returns has returned just that.
C30_RowsGroupedInIdOrder ==
    kind = "sqlite"
    => /\ GroupedInIdOrder(db, SQLite_load_history(db))
       /\ ItemsAsGiven(SQLite_load_history(db))
       /\ (pc[1] = "idle" /\ result[1] = "loaded")
          => loaded[1] = SQLite_load_history(db)

\* The entry with two items was appended, which the join gives two rows
\* for, and load_history has returned one entry with the two items.
C30_Witness ==
    /\ kind = "sqlite"
    /\ pc[1] = "idle"
    /\ result[1] = "loaded"
    /\ appended = <<EntryTwo>>
    /\ Cardinality(db.todos) = 2
    /\ Len(loaded[1]) = 1
    /\ Len(loaded[1][1].todos) = 2

\* ------------------------------------------------ row identifiers

\* The ids of the entry rows of database d.
EntryIds(d) == {e.id : e \in d.entries}

\* The ids of the persisted entry rows are 1, 2, ... without a gap, one
\* row per id, the last one the AUTOINCREMENT counter; and the row of id i
\* is the row of the i-th entry whose append_entry returned.
IdsCountAppends ==
    kind = "sqlite"
    => /\ EntryIds(db) = 1..Cardinality(db.entries)
       /\ Cardinality(EntryIds(db)) = Cardinality(db.entries)
       /\ db.seqE = Cardinality(db.entries)
       /\ \A i \in DOMAIN appended :
             \E e \in db.entries :
                /\ e.id = i
                /\ e.session_id = SQLite_StoreText(appended[i].session_id)

\* C19: on a database that was fresh, through appends that return and
\* appends that fail, the persisted entry rows have the ids 1, 2, ... in
\* append order, one more per inserted entry; and a persisted row keeps
\* its id and its values, so no id is ever given to another entry.
C19_EntryIdsAscendByOne ==
    /\ []IdsCountAppends
    /\ [][db.entries \subseteq db.entries']_vars

\* Two appends have returned; the rows have the ids 1 and 2 in that order.
C19_Witness ==
    /\ kind = "sqlite"
    /\ pc[1] = "idle"
    /\ appended = <<EntryTwo, EntryOne>>
    /\ {<<e.id, e.session_id>> : e \in db.entries}
         = {<<1, EntryTwo.session_id>>, <<2, EntryOne.session_id>>}

\* Every item row of database d references one entry row of d, and one
\* only.
ReferencesOne(d) ==
    \A t \in d.todos : Cardinality({e \in d.entries : e.id = t.entry_id}) = 1

\* C20: in every state, callers interleaved, every item row of the
\* committed database references exactly one entry row of it; and in the
\* open transaction of a running append_entry the same holds, every item
\* row the call has inserted references the id the call got for its entry
\* row (cursor.lastrowid), and that id is the id of the entry row the call
\* has inserted.
C20_ItemsReferenceTheirEntry ==
    /\ ReferencesOne(db)
    /\ \A p \in Procs :
          txn[p].active
          => /\ ReferencesOne(txn[p].work)
             /\ \A t \in txn[p].work.todos \ db.todos :
                   /\ t.entry_id = entryId[p]
                   /\ entryId[p] \in EntryIds(txn[p].work) \ EntryIds(db)
                   /\ \E e \in txn[p].work.entries :
                         /\ e.id = entryId[p]
                         /\ e.session_id = SQLite_StoreText(entry[p].session_id)

\* Caller 1 is about to commit the entry with two items, both item rows
\* inserted, on a database that holds the entry and the two item rows
\* that caller 2 has committed.
C20_Witness ==
    /\ pc[1] = "commit"
    /\ entry[1] = EntryTwo
    /\ entryId[1] = 2
    /\ Cardinality(txn[1].work.todos \ db.todos) = 2
    /\ Cardinality(db.entries) = 1
    /\ Cardinality(db.todos) = 2
    /\ result[2] = "ok"

\* ------------------------------------------------- persisted fields

\* An entry with the four fields of LogEntry whose items have the three
\* fields of TodoItem, and no other.
HasExactFields(e) ==
    /\ DOMAIN e = {"timestamp", "session_id", "cwd", "todos"}
    /\ \A i \in DOMAIN e.todos :
          DOMAIN e.todos[i] = {"content", "status", "activeForm"}

\* C21: in both backends every entry the store holds, as load_history
\* gives it, has exactly the fields timestamp, session_id, cwd and todos,
\* and every item of it exactly content, status and activeForm: a field
\* an appended item had beside these is not in the store.
C21_PersistedFieldsExact ==
    (pc[1] = "idle" /\ LoadOf(StoreNow).err = "none")
    => \A i \in DOMAIN LoadOf(StoreNow).val : HasExactFields(LoadOf(StoreNow).val[i])

\* C21 for the SQLite backend alone: the tables have no column for
\* another field.
C21_SqlitePersistedFieldsExact ==
    kind = "sqlite"
    => \A i \in DOMAIN SQLite_load_history(db) : HasExactFields(SQLite_load_history(db)[i])

\* The database holds the entry whose item was given with a fourth field.
C21_SqliteWitness ==
    /\ kind = "sqlite"
    /\ pc[1] = "idle"
    /\ appended = <<EntryExtra>>
    /\ Len(SQLite_load_history(db)) = 1

\* ------------------------------------------------ the two backends

\* An append_entry has been made on both backends.
PairAppended == result[1] \notin {"none", "loaded"}

\* C22: given the same append_entry calls from fresh, the call returns on
\* the JSON backend if and only if it returns on the SQLite backend, and
\* after every call load_history returns the same list on both.
C22_BackendsAgree ==
    /\ PairAppended => (result[1] = "ok" <=> result[2] = "ok")
    /\ JSON_load_history(target).val = SQLite_load_history(db)

\* C22 for the entries LogEntry describes (text fields, items of the three
\* text fields): every such call returns on both backends, and while no
\* other entry was stored both load as the entries given.
C22_BackendsAgreeOnWellFormed ==
    /\ (PairAppended /\ entry[1] \in WellFormedEntries)
       => (result[1] = "ok" /\ result[2] = "ok")
    /\ (\A i \in DOMAIN appended : appended[i] \in WellFormedEntries)
       => /\ JSON_load_history(target) = Returned(appended)
          /\ SQLite_load_history(db) = appended

\* Both backends hold the entry with two items and the entry without
\* items, and both have loaded them.
C22_WitnessWellFormed ==
    /\ appended = <<EntryTwo, EntryEmpty>>
    /\ result = [p \in Procs |-> "loaded"]
    /\ loaded[1] = appended
    /\ loaded[2] = appended

\* ------------------------------------------------ order and timestamps

\* C31: for both backends, whatever the timestamps of the entries given
\* (going up, equal or going down from one call to the next), every
\* append_entry returns, and load_history gives the entries in the order
\* of the calls, each with the timestamp string it was given.
C31_AppendOrderWhateverTimestamps ==
    /\ PairAppended => (result[1] = "ok" /\ result[2] = "ok")
    /\ JSON_load_history(target) = Returned(appended)
    /\ SQLite_load_history(db) = appended
    /\ \A p \in Procs :
          result[p] = "loaded"
          => /\ Len(loaded[p]) = Len(appended)
             /\ \A i \in DOMAIN appended :
                   loaded[p][i].timestamp = appended[i].timestamp

\* Two entries were appended, the second with the earlier timestamp, and
\* both backends have loaded them in the order of the calls.
C31_Witness ==
    /\ Len(appended) = 2
    /\ TextBefore(appended[2].timestamp.s, appended[1].timestamp.s)
    /\ result = [p \in Procs |-> "loaded"]
    /\ loaded[1] = appended
    /\ loaded[2] = appended

\* C23: constructing a SQLiteStorageBackend on a database that is already
\* initialized is a no-op on its content, however often it is repeated: a
\* construction that finds the database raises nothing, and the database,
\* load_history and both queries (for every session id and every status)
\* give after it what they gave before it.
Constructed ==
    /\ kind = "sqlite"
    /\ pc' = pc
    /\ calls' = calls
    /\ \E p \in Procs : /\ result'[p] = "constructed"
                        /\ query'[p] = NoQuery
                        /\ pre'[p] = StoreNow

SameAnswers(d, e) ==
    /\ SQLite_load_history(e) = SQLite_load_history(d)
    /\ \A s \in QuerySessions :
          SQLite_get_entries_by_session(e, s) = SQLite_get_entries_by_session(d, s)
    /\ \A s \in QueryStatuses :
          SQLite_get_todos_by_status(e, s) = SQLite_get_todos_by_status(d, s)

RollbackFailed(p) == pc[p] = "close" /\ exc[p] # "KeyError" /\ txn[p].active

C24_OriginalErrorRaised ==
    [][\A p \in Procs :
         /\ pc[p] = "rollback" /\ pc'[p] = "close" => exc'[p] = exc[p]
         /\ pc[p] = "close" /\ pc'[p] = "idle" /\ exc[p] # "none" =>
               result'[p] = exc[p]]_vars

\* Witness: an insertion violated a constraint, the rollback failed (the
\* transaction is still open at the finally clause) and the pending error
\* is the IntegrityError.
C24_Witness ==
    /\ kind = "sqlite"
    /\ RollbackFailed(1)
    /\ exc[1] = "IntegrityError"

\* C25: after an operation of either backend has returned or raised, on
\* every exit path, no database connection and no file handle that the
\* operation acquired is still open.
C25_NothingLeftOpen ==
    \A p \in Procs : pc[p] = "idle" => conn[p] = 0 /\ ~JSON_temp_fd_open(p)

\* C26: the JSON backend serialises without escaping non-ASCII text: each
\* character outside ASCII of an entry that append_entry has written is in
\* the file as the bytes of its UTF-8 encoding, not as an escape sequence.
Utf8Encode(c) ==
    CASE c < 128   -> <<c>>
      [] c < 2048  -> <<192 + (c \div 64), 128 + (c % 64)>>
      [] c < 65536 -> <<224 + (c \div 4096), 128 + ((c \div 64) % 64), 128 + (c % 64)>>
      [] OTHER     -> <<240 + (c \div 262144), 128 + ((c \div 4096) % 64),
                        128 + ((c \div 64) % 64), 128 + (c % 64)>>

Contains(tok, sub) ==
    \E i \in 1..(Len(tok) + 1 - Len(sub)) : SubSeq(tok, i, i + Len(sub) - 1) = sub

ItemTexts(e) ==
    {v \in UNION {{e.todos[i][key] : key \in DOMAIN e.todos[i]} : i \in DOMAIN e.todos} :
        v.k = "str"}

NonAscii(e) == UNION {{v.s[j] : j \in {j \in DOMAIN v.s : v.s[j] >= 128}} : v \in ItemTexts(e)}

C26_NonAsciiWrittenAsUtf8 ==
    (kind = "json" /\ pc[1] = "idle" /\ result[1] = "ok")
    => \A c \in NonAscii(appended[Len(appended)]) :
          \E i \in DOMAIN target.data : Contains(target.data[i], Utf8Encode(c))

\* ------------------------------------------------- the hook: properties

Exited == hook.pc = "exited"
IsTodoWrite == hook.input.shape = "dict" /\ hook.input.tool_name = "TodoWrite"

\* The store holds one entry more than when the script began, and the one
\* call of append_entry returned.
AppendedOne ==
    /\ result[1] = "ok"
    /\ Len(appended) = 1
    /\ LoadOf(StoreNow).err = "none"
    /\ LoadOf(pre[1]).err = "none"
    /\ Len(LoadOf(StoreNow).val) = Len(LoadOf(pre[1]).val) + 1

UnknownBackend ==
    SelectBranch(lower(strip(EnvGet("TODO_STORAGE_BACKEND", TextJson)))) = "raise"

\* The construction of the backend or its append_entry raised.
StorageFailure == backend.kind \in Failures \/ result[1] \in Failures

\* What the exit status of an ended run tells, escapes being the condition
\* under which the configured path counts as escaping.
ExitStatusTells(escapes) ==
    Exited
    => /\ hook.status \in {0, 1}
       /\ (IsTodoWrite /\ hook.status = 0) => AppendedOne
       /\ hook.input.shape = "invalid" => hook.status = 1
       /\ (IsTodoWrite /\ hook.project_dir # "set") => hook.status = 1
       /\ (IsTodoWrite /\ (UnknownBackend \/ escapes)) => hook.status = 1
       /\ StorageFailure => hook.status = 1

\* C27: main always ends, exiting with status 0 or 1; for a TodoWrite event
\* it exits with 0 only if exactly one entry was appended to the configured
\* backend, and it exits with 1 on input that is no JSON, on a missing
\* CLAUDE_PROJECT_DIR, on a configuration error (an unknown backend, a
\* path that escapes the project directory) and on any storage failure.
C27_MainExitStatus == <>Exited /\ []ExitStatusTells(ResolvesOutside)

\* C27 where no symbolic-link loop is met while the configured path is
\* resolved.
C27_MainExitStatusWithoutLoop ==
    <>Exited
    /\ []ExitStatusTells(ResolvesOutside
                         /\ resolve_strict(Candidate(base_dir, CustomPath)).ok)

\* A TodoWrite event was saved and main exited with 0; the path of the
\* log file was set and refused, and main exited with 1.
C27_WitnessWithoutLoop ==
    /\ Exited
    /\ IsTodoWrite
    /\ \/ hook.status = 0 /\ AppendedOne /\ Len(hook.entry.todos) = 2
       \/ hook.status = 1 /\ ResolvesOutside /\ kind = "json"

\* C28: whenever main exits with status 1, load_history returns on the
\* store what it returned before the script ran.
C28_ExitOneKeepsHistory ==
    (Exited /\ hook.status = 1) => LoadOf(StoreNow) = LoadOf(pre[1])

\* C28 for the runs in which append_entry did not return: main exited with
\* 1 before it called append_entry, or because append_entry raised.
C28_ExitOneWithoutAppendKeepsHistory ==
    (Exited /\ hook.status = 1 /\ result[1] # "ok")
    => LoadOf(StoreNow) = LoadOf(pre[1])

\* The input is an event (a JSON object) of another tool or without
\* tool_name.
OtherEvent == hook.input.shape = "dict" /\ hook.input.tool_name # "TodoWrite"

HasRequiredKeys(item) ==
    /\ DOMAIN item # {"k", "s"}
    /\ \A key \in {"content", "status", "activeForm"} : key \in DOMAIN item

\* How many of the first j values of a list have the required keys.
KeptUpTo(items, j) == Cardinality({m \in 1..j : HasRequiredKeys(items[m])})

\* C33: validate_todos has returned, raising nothing, the values of the
\* list it was given that are dicts with the keys content, status and
\* activeForm, each one once and in the list's order, and no other value;
\* and the empty list for a value that is no list.
C33_ValidTodosInOrder ==
    hook.pc = "validated"
    => LET todos == hook.input.todos
           kept == hook.entry.todos
       IN  /\ ~todos.list => kept = <<>>
           /\ todos.list
              => /\ Len(kept) = KeptUpTo(todos.items, Len(todos.items))
                 /\ \A j \in DOMAIN todos.items :
                       HasRequiredKeys(todos.items[j])
                       => kept[KeptUpTo(todos.items, j)] = todos.items[j]

\* validate_todos was given a string and, after it, an item with a key
\* more than the required ones, and has returned that item alone.
C33_Witness ==
    /\ hook.pc = "validated"
    /\ hook.input.todos
         = TodoList(<<Str(<<99, 111, 110, 116, 101, 110, 116>>), EntryExtra.todos[1]>>)
    /\ hook.entry.todos = EntryExtra.todos

\* The field of the entry built is the word "unknown" if the input's field
\* is missing or the empty string, and the input's value if not.
DefaultedOrKept(given, built) ==
    IF given = None \/ given = Str(<<>>) THEN built = Unknown ELSE built = given

\* The list h has the entries of the list given, one for one, each with
\* the session_id and the cwd given.
FieldsAsGiven(h, given) ==
    /\ Len(h) = Len(given)
    /\ \A i \in DOMAIN given :
          h[i].session_id = given[i].session_id /\ h[i].cwd = given[i].cwd

ReadCall ==
    \/ JSON_load_history_call(1)
    \/ SQLite_load_history_call(1)
    \/ \E s \in QuerySessions : SQLite_get_entries_by_session_call(1, s)
    \/ \E s \in QueryStatuses : SQLite_get_todos_by_status_call(1, s)

\* C35: a call of load_history (either backend), of get_entries_by_session
\* or of get_todos_by_status leaves the log file as it is (absent if it
\* was absent), makes no directory and no temporary file, leaves the
\* rows of the database as they are, and load_history returns after it
\* what it returned before it; so it is after any number of such calls.
C35_ReadsChangeNothing ==
    [][ReadCall
       => /\ target' = target
          /\ dirExists' = dirExists
          /\ tmpFiles' = tmpFiles
          /\ db' = db
          /\ LoadOfNext = LoadOf(StoreNow)]_vars

\* The second call was a load_history on a log file that does not exist,
\* in a directory that does; it returned [] and the file still does not
\* exist.
C35_Witness ==
    /\ kind = "json"
    /\ calls = 2
    /\ appended = <<>>
    /\ result[1] = "loaded"
    /\ loaded[1] = <<>>
    /\ dirExists
    /\ ~target.exists

\* ------------------------------------------------ concurrent JSON writers

\* The history the log file holds before the first call; the callers
\* never append its entry.
InitialHistory == <<EntryOne>>

\* Sequence s is t with some of its elements left out.
RECURSIVE IsSubsequence(_, _)
IsSubsequence(s, t) ==
    IF s = <<>> THEN TRUE
    ELSE IF t = <<>> THEN FALSE
    ELSE IF Head(s) = Head(t) THEN IsSubsequence(Tail(s), Tail(t))
    ELSE IsSubsequence(s, Tail(t))

\* The list is some of the entries that were renamed onto the target, in
\* the order of the renames, each at most once, the one renamed last at
\* the end.
SomeRenamed(new) ==
    /\ new # <<>>
    /\ Len(new) <= Len(appended)
    /\ IsSubsequence(new, appended)
    /\ new[Len(new)] = appended[Len(appended)]

\* What load_history returned, r, is the initial history and after it
\* some of the entries renamed.
InitialThenSomeRenamed(r) ==
    /\ r.err = "none"
    /\ IsPrefix(InitialHistory, r.val)
    /\ SomeRenamed(SubSeq(r.val, Len(InitialHistory) + 1, Len(r.val)))

\* Every call made so far was an append_entry and has returned.
AllAppendsReturned ==
    /\ calls > 0
    /\ Len(appended) = calls
    /\ \A p \in Procs : pc[p] = "idle"

\* What load_history returned, r, has the initial history at its head.
InitialKept(r) == r.err = "none" /\ IsPrefix(InitialHistory, r.val)

\* C36: callers of the JSON backend interleaved on a valid history, two
\* callers that hold a temporary file hold different ones (made in the
\* target's directory); every rename leaves the initial history at the
\* head of the target; and when every append_entry has returned the
\* target holds the initial history and, after it, some of the new
\* entries, at least one, none twice, in the order of their renames and
\* ending with the entry renamed last, and nothing else.
C36_InitialThenSomeNewEntries ==
    /\ [](\A p, q \in Procs :
            (p # q /\ tempPath[p] # 0 /\ tempPath[q] # 0)
            => /\ tempPath[p] # tempPath[q]
               /\ {tempPath[p], tempPath[q]} \subseteq DOMAIN tmpFiles)
    /\ [](AllAppendsReturned => InitialThenSomeRenamed(JSON_load_history(target)))
    /\ [][target' # target => InitialKept(JSON_load_history(target'))]_vars

\* On the history of one entry both callers' appends have returned, of
\* different entries; the file holds the initial entry and the entry
\* renamed last, the other new entry is not in it.
C36_Witness ==
    /\ AllAppendsReturned
    /\ Len(appended) = 2
    /\ appended[1] # appended[2]
    /\ JSON_load_history(target).val = <<EntryOne, appended[2]>>

\* ------------------------------------------------ concurrent SQLite writers

\* The entry as the TEXT columns hold it and load_history gives it back.
AsStored(e) ==
    [timestamp |-> SQLite_StoreText(e.timestamp),
     session_id |-> SQLite_StoreText(e.session_id),
     cwd |-> SQLite_StoreText(e.cwd),
     todos |-> [k \in DOMAIN e.todos |->
                  Todo(SQLite_StoreText(e.todos[k].content),
                       SQLite_StoreText(e.todos[k].status),
                       SQLite_StoreText(e.todos[k].activeForm))]]

\* How often the value x stands in the list h.
Occurrences(h, x) == Cardinality({j \in DOMAIN h : h[j] = x})

\* Every entry whose append_entry returned is in the list h with all its
\* items, as often as it was appended.
HoldsAppended(h) ==
    \A i \in DOMAIN appended :
       Occurrences(h, AsStored(appended[i]))
         >= Cardinality({j \in DOMAIN appended :
                           AsStored(appended[j]) = AsStored(appended[i])})

\* C37: callers of the SQLite backend interleaved, what load_history
\* returns on the committed database holds, at every moment, every entry
\* whose append_entry has returned, with all its items, and a load_history
\* call returns that; no step takes a committed row away; a call that
\* finds the write lock held by another caller goes on with
\* OperationalError in flight, adds no row, and a call that ends with an
\* error in flight ends raising it and is not counted as appended.
C37_ReturnedAppendsStay ==
    /\ []HoldsAppended(SQLite_load_history(db))
    /\ [][/\ db.entries \subseteq db'.entries
          /\ db.todos \subseteq db'.todos
          /\ \A p \in Procs :
                /\ (SQLite_load_history_call(p) /\ result'[p] = "loaded")
                   => loaded'[p] = SQLite_load_history(db)
                /\ (pc[p] = "insert_entry" /\ pc'[p] # "insert_entry"
                    /\ lock \notin {0, p})
                   => (exc'[p] = "OperationalError" /\ db' = db /\ ~txn'[p].active)
                /\ (pc[p] # "idle" /\ pc'[p] = "idle" /\ exc[p] # "none")
                   => (result'[p] = exc[p] /\ appended' = appended)
                /\ (pc[p] # "idle" /\ pc'[p] = "idle" /\ result'[p] = "ok")
                   => appended' = Append(appended, entry[p])]_vars

\* Caller 1's append has returned and its entry is loaded; caller 2, which
\* found the write lock held, has OperationalError in flight and no
\* transaction, and its entry is not in the database.
C37_Witness ==
    /\ pc[1] = "idle"
    /\ result[1] = "ok"
    /\ appended = <<EntryTwo>>
    /\ SQLite_load_history(db) = <<EntryTwo>>
    /\ pc[2] = "rollback"
    /\ exc[2] = "OperationalError"
    /\ ~txn[2].active
    /\ entry[2] = EntryOne

\* ------------------------------------------------ where the backend stores

\* C38: a backend that get_storage_backend returns stores at a place that,
\* every symbolic link followed, is the canonical project directory or
\* lies under it, for a configured path and for the default path
\* (.claude/todos.json, .claude/todos.db) alike.
C38_BackendInsideProject ==
    (selPc = "done" /\ backend.kind \in {"json", "sqlite"})
    => IsPrefix(CanonicalOf(base_dir), CanonicalOf(backend.path))

====
